---------------------------- MODULE Spec2Model ----------------------------
(***************************************************************************)
(* A model of openalex-ts: the Filter builder (filter.ts), the WorkFilter  *)
(* facade (types/work.ts), the select clause built by getWork, getWorks    *)
(* and getAuthor (index.ts), and the validation of raw records by          *)
(* parseWork / parseAuthor (types/work.ts, types/author.ts).               *)
(*                                                                         *)
(* JavaScript values are tagged records: [t |-> "str", v |-> "abc"],       *)
(* [t |-> "num", v |-> 7], [t |-> "bool", v |-> TRUE], [t |-> "null"],     *)
(* [t |-> "undef"], [t |-> "arr", v |-> <<...>>] and                       *)
(* [t |-> "obj", v |-> [key |-> value]].  A key that is not in the DOMAIN  *)
(* of an object is an absent key; a key mapped to Undef is a key that is   *)
(* present with the value undefined.                                       *)
(***************************************************************************)
EXTENDS Integers, Sequences, FiniteSets, TLC

VARIABLES
    filters,   \* filters[o]: the `filters` field of builder instance o
    calls,     \* calls[o]: the add calls made on o, as the caller wrote them
    ret,       \* the last call on a builder and what it returned
    sel,       \* the last request built by getWork / getWorks / getAuthor
    parsed     \* the last parseWork / parseAuthor call and its result

vars == <<filters, calls, ret, sel, parsed>>

---------------------------------------------------------------------------
(* Bounds of the model.                                                    *)

\* the most add calls made on the builders of one behaviour, in total
MaxConds == 2

\* the longest excludedFields list a caller passes
MaxExcluded == 2

\* the positions an inverted index gives a word: at most MaxIndices of them,
\* each in 0..MaxPosition
MaxIndices == 2

MaxPosition == 2

---------------------------------------------------------------------------
(* JavaScript values.                                                      *)

Undef == [t |-> "undef"]
Null == [t |-> "null"]
Str(s) == [t |-> "str", v |-> s]
Num(n) == [t |-> "num", v |-> n]
Bool(b) == [t |-> "bool", v |-> b]
Arr(s) == [t |-> "arr", v |-> s]
Obj(f) == [t |-> "obj", v |-> f]

Digits == <<"0", "1", "2", "3", "4", "5", "6", "7", "8", "9">>

RECURSIVE NatToString(_)
\* the decimal digits of a natural number, most significant first
NatToString(n) ==
    IF n < 10 THEN Digits[n + 1]
    ELSE NatToString(n \div 10) \o Digits[(n % 10) + 1]

\* String(v) of a FilterValue, as a template literal or `operator + v` applies it
JsToString(v) ==
    CASE v.t = "str" -> v.v
      [] v.t = "num" -> IF v.v < 0 THEN "-" \o NatToString(-(v.v))
                        ELSE NatToString(v.v)
      [] v.t = "bool" -> IF v.v THEN "true" ELSE "false"

RECURSIVE Join(_, _)
\* Array.prototype.join on an array of strings
Join(strs, sep) ==
    IF strs = <<>> THEN ""
    ELSE IF Len(strs) = 1 THEN strs[1]
    ELSE strs[1] \o sep \o Join(Tail(strs), sep)

---------------------------------------------------------------------------
(* filter.ts: class Filter, and class WorkFilter of types/work.ts.         *)

\* the operator argument left out of a call
Omitted == "<omitted>"

Operators == {"", "!", ">", "<"}

\* a parameter `operator: Operator = ""`: the default stands in for undefined
DefaultOperator(operator) == IF operator = Omitted THEN "" ELSE operator

\* a slip of Filter.add: unshift in place of push
Filter_add_unshift(self, fs, field, value, operator) ==
    [filters |-> <<[field |-> field, value |-> value,
                    operator |-> DefaultOperator(operator)]>> \o fs,
     result |-> self]

\* Filter.add: push one condition, return this
Filter_add(self, fs, field, value, operator) ==
    [filters |-> Append(fs, [field |-> field, value |-> value,
                             operator |-> DefaultOperator(operator)]),
     result |-> self]

\* a slip of the map callback: the scalar branch leaves the operator out
Filter_condition_noOperator(c) ==
    IF c.value.t = "arr"
    THEN c.field \o ":" \o
         Join([i \in 1..Len(c.value.v) |-> c.operator \o JsToString(c.value.v[i])], "|")
    ELSE c.field \o ":" \o JsToString(c.value)

\* a slip of the map callback: the operator once in front of the joined list
Filter_condition_operatorOnce(c) ==
    IF c.value.t = "arr"
    THEN c.field \o ":" \o c.operator \o
         Join([i \in 1..Len(c.value.v) |-> JsToString(c.value.v[i])], "|")
    ELSE c.field \o ":" \o c.operator \o JsToString(c.value)

\* a slip of the map callback: the first element of a list without operator
Filter_condition_bareFirst(c) ==
    IF c.value.t = "arr"
    THEN c.field \o ":" \o
         Join([i \in 1..Len(c.value.v) |->
                  (IF i = 1 THEN "" ELSE c.operator) \o JsToString(c.value.v[i])], "|")
    ELSE c.field \o ":" \o c.operator \o JsToString(c.value)

\* the callback of Filter.build's map: one condition's text
Filter_condition(c) ==
    IF c.value.t = "arr"
    THEN c.field \o ":" \o
         Join([i \in 1..Len(c.value.v) |-> c.operator \o JsToString(c.value.v[i])], "|")
    ELSE c.field \o ":" \o c.operator \o JsToString(c.value)

\* Filter.build: map the conditions, join with ","
Filter_build(fs) ==
    Join([i \in 1..Len(fs) |-> Filter_condition(fs[i])], ",")

\* a slip of Filter.toString: the list is drained while it is serialized
Filter_toString_drain(fs) ==
    [filters |-> <<>>, result |-> "filter=" \o Filter_build(fs)]

\* Filter.toString: the list is read, never written
Filter_toString(fs) ==
    [filters |-> fs, result |-> "filter=" \o Filter_build(fs)]

\* a slip of WorkFilter.add: the operator is not handed on to super.add
WorkFilter_add_dropOperator(self, fs, field, value, operator) ==
    Filter_add(self, fs, field, value, Omitted)

\* WorkFilter.add: its own default for operator, then super.add
WorkFilter_add(self, fs, field, value, operator) ==
    Filter_add(self, fs, field, value, DefaultOperator(operator))

\* the two builder instances of a behaviour and their classes
Instances == {"f", "w"}

ClassOf(o) == IF o = "w" THEN "WorkFilter" ELSE "Filter"

\* add, dispatched on the instance's class
Dispatch_add(o, fs, field, value, operator) ==
    IF ClassOf(o) = "WorkFilter" THEN WorkFilter_add(o, fs, field, value, operator)
    ELSE Filter_add(o, fs, field, value, operator)

\* the values callers pass, each with the field it is passed for
ScalarValues == {Str("A5023888391"), Str("article"), Num(2020), Bool(TRUE)}

ListValues == {Arr(<<Str("A1"), Str("A2")>>)}

FilterValues == ScalarValues \cup ListValues

FieldOf(value) ==
    CASE value = Str("A5023888391") -> "author.id"
      [] value = Str("article") -> "type"
      [] value = Num(2020) -> "publication_year"
      [] value = Bool(TRUE) -> "is_oa"
      [] OTHER -> "id"

OperatorArgs == Operators \cup {Omitted}

NoCall == [op |-> "none", self |-> "none", result |-> Undef, again |-> FALSE]

TotalConds == Len(calls["f"]) + Len(calls["w"])

\* o.add(field, value [, operator])
Add(o, value, operator) ==
    /\ TotalConds < MaxConds
    /\ LET r == Dispatch_add(o, filters[o], FieldOf(value), value, operator)
       IN /\ filters' = [filters EXCEPT ![o] = r.filters]
          /\ ret' = [op |-> "add", self |-> o, result |-> Str(r.result),
                      again |-> FALSE]
    /\ calls' = [calls EXCEPT ![o] =
                    Append(@, [field |-> FieldOf(value), value |-> value,
                               operator |-> operator])]
    /\ UNCHANGED <<sel, parsed>>

\* o.toString(); `again` notes that the call before it was o.toString() too
ToStringCall(o) ==
    /\ LET r == Filter_toString(filters[o])
       IN /\ filters' = [filters EXCEPT ![o] = r.filters]
          /\ ret' = [op |-> "toString", self |-> o, result |-> Str(r.result),
                      again |-> (ret.op = "toString" /\ ret.self = o)]
    /\ UNCHANGED <<calls, sel, parsed>>

NoRequest == [op |-> "none", kind |-> "none", excludedFields |-> <<>>, call |-> Undef]

NoParse == [op |-> "none"]

InitFilter ==
    /\ filters = [o \in Instances |-> <<>>]
    /\ calls = [o \in Instances |-> <<>>]
    /\ ret = NoCall
    /\ sel = NoRequest
    /\ parsed = NoParse

NextFilter ==
    \/ \E o \in Instances, value \in FilterValues, operator \in OperatorArgs :
          Add(o, value, operator)
    \/ \E o \in Instances : ToStringCall(o)

SpecFilter == InitFilter /\ [][NextFilter]_vars

---------------------------------------------------------------------------
(* The field registry: types/work.ts and types/author.ts.                  *)

\* a slip of ExcludeWorkField: the identifier made excludable
ExcludeWorkField_withId ==
    {"id",
     "abstract_inverted_index", "authorships", "apc_list", "apc_paid",
     "primary_location", "best_oa_location", "locations", "open_access",
     "biblio", "counts_by_year", "sustainable_development_goals",
     "concepts"}

\* type ExcludeWorkField
ExcludeWorkField ==
    {"abstract_inverted_index", "authorships", "apc_list", "apc_paid",
     "primary_location", "best_oa_location", "locations", "open_access",
     "biblio", "counts_by_year", "sustainable_development_goals",
     "concepts"}

\* const ALL_WORK_FIELDS
ALL_WORK_FIELDS ==
    <<"id", "ids", "indexed_in", "abstract_inverted_index", "authorships",
      "apc_list", "apc_paid", "primary_location", "best_oa_location",
      "locations", "open_access", "publication_date", "publication_year",
      "biblio", "fwci", "citation_normalized_percentile", "cited_by_count",
      "counts_by_year", "sustainable_development_goals", "has_fulltext",
      "concepts", "title">>

\* type ExcludeAuthorFields
ExcludeAuthorFields ==
    {"affiliations", "created_date", "display_name_alternatives",
     "last_known_institutions", "summary_stats", "updated_date",
     "works_api_url"}

\* const ALL_AUTHOR_FIELDS
ALL_AUTHOR_FIELDS ==
    <<"id", "ids", "cited_by_count", "works_count", "counts_by_year",
      "created_date", "display_name", "display_name_alternatives",
      "last_known_institutions", "orcid", "affiliations", "summary_stats",
      "updated_date", "works_api_url">>

\* the characters of the field names, which encodeURIComponent reads one by one
FieldChars ==
    [id |-> <<"i", "d">>,
     ids |-> <<"i", "d", "s">>,
     indexed_in |-> <<"i", "n", "d", "e", "x", "e", "d", "_", "i", "n">>,
     abstract_inverted_index |-> <<"a", "b", "s", "t", "r", "a", "c", "t", "_", "i", "n", "v", "e", "r", "t", "e", "d", "_", "i", "n", "d", "e", "x">>,
     authorships |-> <<"a", "u", "t", "h", "o", "r", "s", "h", "i", "p", "s">>,
     apc_list |-> <<"a", "p", "c", "_", "l", "i", "s", "t">>,
     apc_paid |-> <<"a", "p", "c", "_", "p", "a", "i", "d">>,
     primary_location |-> <<"p", "r", "i", "m", "a", "r", "y", "_", "l", "o", "c", "a", "t", "i", "o", "n">>,
     best_oa_location |-> <<"b", "e", "s", "t", "_", "o", "a", "_", "l", "o", "c", "a", "t", "i", "o", "n">>,
     locations |-> <<"l", "o", "c", "a", "t", "i", "o", "n", "s">>,
     open_access |-> <<"o", "p", "e", "n", "_", "a", "c", "c", "e", "s", "s">>,
     publication_date |-> <<"p", "u", "b", "l", "i", "c", "a", "t", "i", "o", "n", "_", "d", "a", "t", "e">>,
     publication_year |-> <<"p", "u", "b", "l", "i", "c", "a", "t", "i", "o", "n", "_", "y", "e", "a", "r">>,
     biblio |-> <<"b", "i", "b", "l", "i", "o">>,
     fwci |-> <<"f", "w", "c", "i">>,
     citation_normalized_percentile |-> <<"c", "i", "t", "a", "t", "i", "o", "n", "_", "n", "o", "r", "m", "a", "l", "i", "z", "e", "d", "_", "p", "e", "r", "c", "e", "n", "t", "i", "l", "e">>,
     cited_by_count |-> <<"c", "i", "t", "e", "d", "_", "b", "y", "_", "c", "o", "u", "n", "t">>,
     counts_by_year |-> <<"c", "o", "u", "n", "t", "s", "_", "b", "y", "_", "y", "e", "a", "r">>,
     sustainable_development_goals |-> <<"s", "u", "s", "t", "a", "i", "n", "a", "b", "l", "e", "_", "d", "e", "v", "e", "l", "o", "p", "m", "e", "n", "t", "_", "g", "o", "a", "l", "s">>,
     has_fulltext |-> <<"h", "a", "s", "_", "f", "u", "l", "l", "t", "e", "x", "t">>,
     concepts |-> <<"c", "o", "n", "c", "e", "p", "t", "s">>,
     title |-> <<"t", "i", "t", "l", "e">>,
     works_count |-> <<"w", "o", "r", "k", "s", "_", "c", "o", "u", "n", "t">>,
     created_date |-> <<"c", "r", "e", "a", "t", "e", "d", "_", "d", "a", "t", "e">>,
     display_name |-> <<"d", "i", "s", "p", "l", "a", "y", "_", "n", "a", "m", "e">>,
     display_name_alternatives |-> <<"d", "i", "s", "p", "l", "a", "y", "_", "n", "a", "m", "e", "_", "a", "l", "t", "e", "r", "n", "a", "t", "i", "v", "e", "s">>,
     last_known_institutions |-> <<"l", "a", "s", "t", "_", "k", "n", "o", "w", "n", "_", "i", "n", "s", "t", "i", "t", "u", "t", "i", "o", "n", "s">>,
     orcid |-> <<"o", "r", "c", "i", "d">>,
     affiliations |-> <<"a", "f", "f", "i", "l", "i", "a", "t", "i", "o", "n", "s">>,
     summary_stats |-> <<"s", "u", "m", "m", "a", "r", "y", "_", "s", "t", "a", "t", "s">>,
     updated_date |-> <<"u", "p", "d", "a", "t", "e", "d", "_", "d", "a", "t", "e">>,
     works_api_url |-> <<"w", "o", "r", "k", "s", "_", "a", "p", "i", "_", "u", "r", "l">>]

Letters ==
    {"a", "b", "c", "d", "e", "f", "g", "h", "i", "j", "k", "l", "m",
     "n", "o", "p", "q", "r", "s", "t", "u", "v", "w", "x", "y", "z"}

\* the characters encodeURIComponent leaves as they are (ECMAScript
\* uriUnescaped: letters, digits and - _ . ! ~ * ' ( ) ); the field names
\* are written in lower case
UriUnescaped ==
    Letters \cup {Digits[i] : i \in 1..10}
            \cup {"-", "_", ".", "!", "~", "*", "'", "(", ")"}

\* the escapes of the ASCII characters a query string gives a meaning to
PercentEscape(c) ==
    CASE c = " " -> "%20"
      [] c = "," -> "%2C"
      [] c = ":" -> "%3A"
      [] c = "/" -> "%2F"
      [] c = "?" -> "%3F"
      [] c = "&" -> "%26"
      [] c = "=" -> "%3D"
      [] c = "|" -> "%7C"

\* encodeURIComponent(field)
encodeURIComponent(field) ==
    LET chars == FieldChars[field]
    IN Join([i \in 1..Len(chars) |->
                IF chars[i] \in UriUnescaped THEN chars[i]
                ELSE PercentEscape(chars[i])], "")

\* new Set(excludedFields)
NewSet(excludedFields) == {excludedFields[i] : i \in 1..Len(excludedFields)}

RECURSIVE ArrayFilterNotIn(_, _)
\* fields.filter((field) => !excludedFieldsSet.has(field))
ArrayFilterNotIn(fields, excludedFieldsSet) ==
    IF fields = <<>> THEN <<>>
    ELSE IF fields[1] \in excludedFieldsSet
         THEN ArrayFilterNotIn(Tail(fields), excludedFieldsSet)
         ELSE <<fields[1]>> \o ArrayFilterNotIn(Tail(fields), excludedFieldsSet)

\* a slip of the selection: only the first excluded field is left out
SelectedFields_firstOnly(allFields, excludedFields) ==
    ArrayFilterNotIn(allFields,
        IF excludedFields = <<>> THEN {} ELSE {excludedFields[1]})

\* const selectedFields = ALL_..._FIELDS.filter(...), after new Set(excludedFields)
SelectedFields(allFields, excludedFields) ==
    ArrayFilterNotIn(allFields, NewSet(excludedFields))

\* encodeURIComponent of every field name, worked out once
EncodedFieldName == [field \in DOMAIN FieldChars |-> encodeURIComponent(field)]

\* selectedFields.map((field) => encodeURIComponent(field)).join(",")
SelectList(selectedFields) ==
    Join([i \in 1..Len(selectedFields) |-> EncodedFieldName[selectedFields[i]]], ",")

---------------------------------------------------------------------------
(* index.ts: getWork, getWorks and getAuthor up to the request they issue. *)

Error(message) == [t |-> "error", v |-> message]

WorkIdType == {"doi", "mag", "pmid", "pmcid", "openalex"}

AuthorIdType == {"orcid", "openalex", "scopus", "wikipedia", "twitter"}

\* a parameter `idType = "openalex"`
DefaultIdType(idType) == IF idType = Omitted THEN "openalex" ELSE idType

\* the switch of getWork and of getAuthor: the id behind its prefix
PrefixedId(id, idType) ==
    IF idType = "openalex" THEN id ELSE idType \o ":" \o id

\* getWork, from its entry to `await fetch(...)` or to its early return
getWork(workId, workIdType, excludedFields) ==
    LET idType == DefaultIdType(workIdType)
        selectedFields == SelectedFields(ALL_WORK_FIELDS, excludedFields)
        selectQuery == "?select=" \o SelectList(selectedFields)
    IN IF idType \notin WorkIdType
       THEN [pc |-> "returned", url |-> "", selectQuery |-> "", filterClause |-> "",
             selectedFields |-> <<>>,
             result |-> <<Undef, Error("Invalid work ID type: " \o idType
                 \o ". Valid types are: doi, mag, pmid, pmcid, openalex.")>>]
       ELSE [pc |-> "fetching",
             url |-> "https://api.openalex.org/works/"
                        \o PrefixedId(workId, idType) \o selectQuery,
             selectQuery |-> selectQuery, filterClause |-> "",
             selectedFields |-> selectedFields,
             result |-> <<>>]

\* getWorks, from its entry to `await fetch(...)`; filterText is what
\* filter.toString() returned, Undef for a call without a filter
getWorks(filterText, excludedFields) ==
    LET selectedFields == SelectedFields(ALL_WORK_FIELDS, excludedFields)
        selectQuery == "select=" \o SelectList(selectedFields)
        filterClause == IF filterText = Undef THEN "" ELSE filterText.v
    IN [pc |-> "fetching",
        url |-> "https://api.openalex.org/works?" \o selectQuery \o "&" \o filterClause,
        selectQuery |-> selectQuery, filterClause |-> filterClause,
        selectedFields |-> selectedFields,
        result |-> <<>>]

\* getAuthor, from its entry to `await fetch(...)` or to its early return
getAuthor(authorId, authorIdType, excludedFields) ==
    LET idType == DefaultIdType(authorIdType)
        selectedFields == SelectedFields(ALL_AUTHOR_FIELDS, excludedFields)
        selectQuery == "?select=" \o SelectList(selectedFields)
    IN IF idType \notin AuthorIdType
       THEN [pc |-> "returned", url |-> "", selectQuery |-> "", filterClause |-> "",
             selectedFields |-> <<>>,
             result |-> <<Undef, Error("Invalid author ID type: " \o idType
                 \o ". Valid types are: orcid, openalex, scopus, wikipedia, twitter.")>>]
       ELSE [pc |-> "fetching",
             url |-> "https://api.openalex.org/authors/"
                        \o PrefixedId(authorId, idType) \o selectQuery,
             selectQuery |-> selectQuery, filterClause |-> "",
             selectedFields |-> selectedFields,
             result |-> <<>>]

\* the excludedFields lists a caller passes: any order, with or without
\* duplicates, or none at all (the parameter's default [])
ExcludedLists(excludable) ==
    UNION {[1..n -> excludable] : n \in 0..MaxExcluded}

WorkExcludedLists == ExcludedLists(ExcludeWorkField)

AuthorExcludedLists == ExcludedLists(ExcludeAuthorFields)

WorkIdTypeArgs == WorkIdType \cup {Omitted, "isbn"}

AuthorIdTypeArgs == AuthorIdType \cup {Omitted, "isni"}

\* the add calls made on the WorkFilter before the requests of a behaviour
FilterCallLists ==
    {<<>>,
     <<[field |-> "author.id", value |-> Str("A5023888391"), operator |-> Omitted]>>,
     <<[field |-> "author.id", value |-> Str("A5023888391"), operator |-> Omitted],
       [field |-> "type", value |-> Str("article"), operator |-> "!"]>>}

RECURSIVE AddAll(_, _)
\* the condition list of instance o after the add calls cs
AddAll(o, cs) ==
    IF cs = <<>> THEN <<>>
    ELSE LET n == Len(cs)
         IN Dispatch_add(o, AddAll(o, SubSeq(cs, 1, n - 1)),
                         cs[n].field, cs[n].value, cs[n].operator).filters

\* The three functions keep nothing between calls, so a behaviour follows one
\* call: the builder as the add calls left it, then the request.
NoRequestYet == sel.op = "none"

\* await getWork(workId, workIdType, excludedFields), up to the request
GetWork(workIdType, excludedFields) ==
    /\ NoRequestYet
    /\ sel' = [op |-> "getWork", kind |-> "work", excludedFields |-> excludedFields,
               call |-> getWork("W2741809807", workIdType, excludedFields)]
    /\ UNCHANGED <<filters, calls, ret, parsed>>

\* await getWorks(w, excludedFields), up to the request
GetWorks(o, excludedFields) ==
    /\ NoRequestYet
    /\ LET r == Filter_toString(filters[o])
       IN /\ filters' = [filters EXCEPT ![o] = r.filters]
          /\ sel' = [op |-> "getWorks", kind |-> "work",
                     excludedFields |-> excludedFields,
                     call |-> getWorks(Str(r.result), excludedFields)]
    /\ UNCHANGED <<calls, ret, parsed>>

\* await getWorks(undefined, excludedFields), up to the request
GetWorksNoFilter(excludedFields) ==
    /\ NoRequestYet
    /\ sel' = [op |-> "getWorks", kind |-> "work", excludedFields |-> excludedFields,
               call |-> getWorks(Undef, excludedFields)]
    /\ UNCHANGED <<filters, calls, ret, parsed>>

\* await getAuthor(authorId, authorIdType, excludedFields), up to the request
GetAuthor(authorIdType, excludedFields) ==
    /\ NoRequestYet
    /\ sel' = [op |-> "getAuthor", kind |-> "author", excludedFields |-> excludedFields,
               call |-> getAuthor("A5023888391", authorIdType, excludedFields)]
    /\ UNCHANGED <<filters, calls, ret, parsed>>

InitSelect ==
    /\ \E cs \in FilterCallLists :
          /\ calls = [f |-> <<>>, w |-> cs]
          /\ filters = [f |-> <<>>, w |-> AddAll("w", cs)]
    /\ ret = NoCall
    /\ sel = NoRequest
    /\ parsed = NoParse

NextSelect ==
    \/ /\ NoRequestYet
       /\ \E workIdType \in WorkIdTypeArgs, excludedFields \in WorkExcludedLists :
             GetWork(workIdType, excludedFields)
    \/ /\ NoRequestYet
       /\ \E excludedFields \in WorkExcludedLists : GetWorks("w", excludedFields)
    \/ /\ NoRequestYet
       /\ \E excludedFields \in WorkExcludedLists : GetWorksNoFilter(excludedFields)
    \/ /\ NoRequestYet
       /\ \E authorIdType \in AuthorIdTypeArgs, excludedFields \in AuthorExcludedLists :
             GetAuthor(authorIdType, excludedFields)

SpecSelect == InitSelect /\ [][NextSelect]_vars

---------------------------------------------------------------------------
(* The Filter and its facade run side by side on the same arguments.       *)

\* f.add(field, value [, operator]) and w.add(field, value [, operator])
AddSame(value, operator) ==
    /\ Len(calls["w"]) < MaxConds
    /\ LET rf == Filter_add("f", filters["f"], FieldOf(value), value, operator)
           rw == WorkFilter_add("w", filters["w"], FieldOf(value), value, operator)
       IN /\ filters' = [f |-> rf.filters, w |-> rw.filters]
          /\ ret' = [op |-> "add", self |-> "both",
                     result |-> Arr(<<Str(rf.result), Str(rw.result)>>),
                     again |-> FALSE]
    /\ calls' = [o \in Instances |->
                    Append(calls[o], [field |-> FieldOf(value), value |-> value,
                                      operator |-> operator])]
    /\ UNCHANGED <<sel, parsed>>

\* f.toString() and w.toString()
ToStringSame ==
    /\ LET rf == Filter_toString(filters["f"])
           rw == Filter_toString(filters["w"])
       IN /\ filters' = [f |-> rf.filters, w |-> rw.filters]
          /\ ret' = [op |-> "toString", self |-> "both",
                     result |-> Arr(<<Str(rf.result), Str(rw.result)>>),
                     again |-> (ret.op = "toString")]
    /\ UNCHANGED <<calls, sel, parsed>>

NextFacade ==
    \/ \E value \in FilterValues, operator \in OperatorArgs : AddSame(value, operator)
    \/ ToStringSame

SpecFacade == InitFilter /\ [][NextFacade]_vars

---------------------------------------------------------------------------
(* What the claims say of the Filter, stated on the calls as they were     *)
(* made.                                                                   *)

ScalarOnly(cs) == \A i \in 1..Len(cs) : cs[i].value.t # "arr"

\* the operator text of a call: one of '', '!', '>', '<'; '' when left out
OperatorText(call) == IF call.operator \in Operators THEN call.operator ELSE ""

\* the plain string conversion of a scalar
PlainText(value) ==
    CASE value.t = "str" -> value.v
      [] value.t = "num" -> ToString(value.v)
      [] value.t = "bool" -> IF value.v THEN "true" ELSE "false"

RECURSIVE ListText(_, _)
\* the elements of a list, each behind the operator, '|' between them
ListText(operator, values) ==
    IF values = <<>> THEN ""
    ELSE LET n == Len(values)
             last == operator \o PlainText(values[n])
         IN IF n = 1 THEN last
            ELSE ListText(operator, SubSeq(values, 1, n - 1)) \o "|" \o last

\* '<field>:<operator><value>', or '<field>:<operator><v1>|<operator><v2>|...'
ConditionText(call) ==
    IF call.value.t = "arr"
    THEN call.field \o ":" \o ListText(OperatorText(call), call.value.v)
    ELSE call.field \o ":" \o OperatorText(call) \o PlainText(call.value)

RECURSIVE ConditionsText(_)
\* one condition per call, ',' between them, in the order of the calls
ConditionsText(cs) ==
    IF cs = <<>> THEN ""
    ELSE LET n == Len(cs)
         IN IF n = 1 THEN ConditionText(cs[1])
            ELSE ConditionsText(SubSeq(cs, 1, n - 1)) \o "," \o ConditionText(cs[n])

ExampleCalls ==
    <<[field |-> "author.id", value |-> Str("A5023888391"), operator |-> Omitted],
      [field |-> "type", value |-> Str("article"), operator |-> "!"]>>

\* C1: after add calls with scalar values, toString returns 'filter=' and one
\* '<field>:<operator><value>' per call, joined by ',' in call order; the
\* spec's example gives 'filter=author.id:A5023888391,type:!article'.
C1_ScalarConditionsInCallOrder ==
    (ret.op = "toString" /\ ScalarOnly(calls[ret.self])) =>
        /\ ret.result = Str("filter=" \o ConditionsText(calls[ret.self]))
        /\ calls[ret.self] = ExampleCalls =>
              ret.result = Str("filter=author.id:A5023888391,type:!article")

C1_Witness ==
    /\ ret.op = "toString"
    /\ calls[ret.self] = ExampleCalls
    /\ ret.result = Str("filter=author.id:A5023888391,type:!article")

ExampleListCall(operator) ==
    [field |-> "id", value |-> Arr(<<Str("A1"), Str("A2")>>), operator |-> operator]

\* C2: a condition with a list value is '<field>:' and the elements joined by
\* '|', in list order, the operator in front of every element.
C2_ListOperatorRepeated ==
    (ret.op = "toString" /\ ~ScalarOnly(calls[ret.self])) =>
        /\ ret.result = Str("filter=" \o ConditionsText(calls[ret.self]))
        /\ \A operator \in OperatorArgs :
              calls[ret.self] = << ExampleListCall(operator) >>
              => ret.result = Str("filter=id:" \o DefaultOperator(operator) \o "A1|"
                                     \o DefaultOperator(operator) \o "A2")

C2_Witness ==
    /\ ret.op = "toString"
    /\ Len(calls[ret.self]) = 1
    /\ calls[ret.self][1].operator = "!"
    /\ ret.result = Str("filter=id:!A1|!A2")

\* the condition an add call stores
StoredCondition(call) ==
    [field |-> call.field, value |-> call.value, operator |-> OperatorText(call)]

\* C3: add returns the instance it was called on and appends exactly one
\* condition, leaving the earlier ones (and the other instance) as they were;
\* after n calls the list holds the n conditions in call order.
C3_AddAppendsOne ==
    /\ [](\A o \in Instances :
            filters[o] = [i \in 1..Len(calls[o]) |-> StoredCondition(calls[o][i])])
    /\ [][calls' # calls =>
            LET o == ret'.self
                n == Len(filters[o])
                call == calls'[o][Len(calls'[o])]
            IN /\ ret'.op = "add"
               /\ ret'.result = Str(o)
               /\ Len(filters'[o]) = n + 1
               /\ SubSeq(filters'[o], 1, n) = filters[o]
               /\ filters'[o][n + 1] =
                     [field |-> call.field, value |-> call.value,
                      operator |-> IF call.operator = Omitted THEN ""
                                   ELSE call.operator]
               /\ \A other \in Instances \ {o} : filters'[other] = filters[other]]_vars

C3_Witness ==
    /\ ret.op = "add"
    /\ ret.result = Str(ret.self)
    /\ Len(filters[ret.self]) = 2
    /\ filters[ret.self][1] # filters[ret.self][2]
    /\ calls[ret.self][2].operator = Omitted

\* C4: toString leaves the condition lists as they are, and a toString right
\* after a toString on the same instance returns the same string.
C4_ToStringReadsOnly ==
    [][ret'.op = "toString" =>
        /\ filters' = filters
        /\ (ret.op = "toString" /\ ret.self = ret'.self) => ret'.result = ret.result]_vars

C4_Witness ==
    /\ ret.op = "toString"
    /\ ret.again
    /\ Len(filters[ret.self]) = 2

\* the texts of the grammar '<condition>' for the fields and values in use
GrammarConditions ==
    {FieldOf(value) \o ":" \o operator \o PlainText(value) :
        value \in ScalarValues, operator \in Operators}
    \cup {FieldOf(value) \o ":" \o ListText(operator, value.v) :
        value \in {l \in ListValues : l.v # <<>>}, operator \in Operators}

\* the texts of the grammar 'filter=<condition>(,<condition>)*'
GrammarTexts ==
    {"filter=" \o Join(cs, ",") :
        cs \in UNION {[1..n -> GrammarConditions] : n \in 1..MaxConds}}

\* C5: whatever calls were made, none included, toString returns a text of
\* the grammar 'filter=<condition>(,<condition>)*'.
C5_ToStringMatchesGrammar ==
    ret.op = "toString" => ret.result.v \in GrammarTexts

\* C6: a WorkFilter and a Filter given the same add calls hold the same
\* conditions and return the same toString text, and WorkFilter.add returns
\* the WorkFilter.
C6_FacadeDelegates ==
    /\ filters["w"] = filters["f"]
    /\ filters["w"] = [i \in 1..Len(calls["w"]) |-> StoredCondition(calls["w"][i])]
    /\ ret.op = "toString" => ret.result.v[2] = ret.result.v[1]
    /\ ret.op = "add" => ret.result.v[2] = Str("w")

C6_Witness ==
    /\ ret.op = "toString"
    /\ Len(filters["w"]) = 2
    /\ calls["w"][1].operator = Omitted
    /\ calls["w"][2].operator = "!"
    /\ ret.result.v[2] = ret.result.v[1]

---------------------------------------------------------------------------
(* What the claims say of the select clause.                               *)

AllFields(kind) == IF kind = "author" THEN ALL_AUTHOR_FIELDS ELSE ALL_WORK_FIELDS

Excludable(kind) == IF kind = "author" THEN ExcludeAuthorFields ELSE ExcludeWorkField

\* the place of each field in the canonical list of its kind
CanonicalIndexOf ==
    [kind \in {"work", "author"} |->
        [field \in {AllFields(kind)[i] : i \in 1..Len(AllFields(kind))} |->
            CHOOSE i \in 1..Len(AllFields(kind)) : AllFields(kind)[i] = field]]

CanonicalIndex(kind, field) == CanonicalIndexOf[kind][field]

RequestIssued == sel.op # "none" /\ sel.call.pc = "fetching"

\* getWork and getAuthor put the clause behind '?', getWorks behind 'works?'
QueryMark == IF sel.op = "getWorks" THEN "" ELSE "?"

\* C7: the select clause is 'select=' and the comma-joined canonical list
\* without the excluded names, each remaining name once, in canonical order.
C7_SelectIsCanonicalMinusExcluded ==
    RequestIssued =>
        LET all == AllFields(sel.kind)
            chosen == sel.call.selectedFields
            excluded == {sel.excludedFields[i] : i \in 1..Len(sel.excludedFields)}
        IN /\ {chosen[i] : i \in 1..Len(chosen)}
                 = {all[i] : i \in 1..Len(all)} \ excluded
           /\ \A i \in 1..(Len(chosen) - 1) :
                 CanonicalIndex(sel.kind, chosen[i])
                    < CanonicalIndex(sel.kind, chosen[i + 1])
           /\ sel.call.selectQuery = QueryMark \o "select=" \o Join(chosen, ",")

C7_Witness ==
    /\ RequestIssued
    /\ sel.op = "getWorks"
    /\ sel.excludedFields = <<"concepts", "authorships">>
    /\ sel.call.selectQuery =
          "select=id,ids,indexed_in,abstract_inverted_index,apc_list,apc_paid,"
          \o "primary_location,best_oa_location,locations,open_access,"
          \o "publication_date,publication_year,biblio,fwci,"
          \o "citation_normalized_percentile,cited_by_count,counts_by_year,"
          \o "sustainable_development_goals,has_fulltext,title"

\* C8: 'id' is excludable for neither kind, and every select list a request
\* carries names 'id'.
C8_IdAlwaysSelected ==
    /\ "id" \notin ExcludeWorkField
    /\ "id" \notin ExcludeAuthorFields
    /\ RequestIssued =>
          LET chosen == sel.call.selectedFields
          IN /\ chosen # <<>>
             /\ chosen[1] = "id"
             /\ sel.call.selectQuery =
                   QueryMark \o "select=id"
                      \o Join([i \in 1..Len(chosen) |->
                                  IF i = 1 THEN "" ELSE chosen[i]], ",")

C8_Witness ==
    /\ RequestIssued
    /\ sel.op = "getAuthor"
    /\ Len(sel.excludedFields) = 2
    /\ sel.excludedFields[1] # sel.excludedFields[2]
    /\ sel.call.selectedFields[1] = "id"


---------------------------------------------------------------------------
(* zod/mini, as the schemas of types/*.ts use it.  A schema is a record    *)
(* with its kind in k; Parse gives [ok, v]: the parsed value, or no value  *)
(* and the first issue.                                                    *)

zString == [k |-> "string"]
zNumber == [k |-> "number"]
zBoolean == [k |-> "boolean"]
zCoerceNumber == [k |-> "coerce_number"]
\* z.literal taken as the type of its value
zLiteral_anyOfType(value) == IF value.t = "str" THEN [k |-> "string"] ELSE [k |-> "number"]

zLiteral(value) == [k |-> "literal", value |-> value]
zUnion(options) == [k |-> "union", options |-> options]
zArray(element) == [k |-> "array", element |-> element]
zObject(shape) == [k |-> "object", shape |-> shape]
zRecord(valueType) == [k |-> "record", valueType |-> valueType]
zOptional(inner) == [k |-> "optional", inner |-> inner]
zNullable(inner) == [k |-> "nullable", inner |-> inner]
\* z.nullish that asks for the key
zNullish_keyRequired(inner) == zNullable(inner)

zNullish(inner) == zOptional(zNullable(inner))
zIntersection(left, right) == [k |-> "intersection", left |-> left, right |-> right]
zPipe(in, transform) == [k |-> "pipe", in |-> in, transform |-> transform]

\* z.union of z.literal strings
zLiterals(strings) == zUnion([i \in 1..Len(strings) |-> zLiteral(Str(strings[i]))])

Ok(value) == [ok |-> TRUE, v |-> value, issue |-> <<>>]

Fail(code) == [ok |-> FALSE, v |-> Undef, issue |-> <<code>>]

\* an issue found under a key or an index: the path grows at the front
Under(step, result) == [result EXCEPT !.issue = <<step>> \o @]

\* obj.key, undefined for a key the object does not have
Get(obj, key) == IF key \in DOMAIN obj.v THEN obj.v[key] ELSE Undef

\* the keys of a JavaScript object in the order Object.entries walks them
KeysOf(obj) == IF "keys" \in DOMAIN obj THEN obj.keys ELSE <<>>

\* an object whose keys keep the order they were written in
OrderedObj(keys, f) == [t |-> "obj", v |-> f, keys |-> keys]

\* the decimal strings the records carry where a number is coerced
NumericStrings == ("27418" :> 27418) @@ ("0" :> 0)

\* Number(x), with NaN as Undef
JsNumber(x) ==
    CASE x.t = "num" -> x
      [] x.t = "str" -> IF x.v = "" THEN Num(0)
                        ELSE IF x.v \in DOMAIN NumericStrings
                             THEN Num(NumericStrings[x.v]) ELSE Undef
      [] x.t = "bool" -> IF x.v THEN Num(1) ELSE Num(0)
      [] x.t = "null" -> Num(0)
      [] OTHER -> Undef

\* the value of an expression worked out once: v in The({F(v) : v \in {e}})
The(S) == CHOOSE v \in S : TRUE

\* the first i with results[order[i]] failed, 0 when there is none
FirstFailed(results, order) ==
    IF \E i \in 1..Len(order) : ~results[order[i]].ok
    THEN CHOOSE i \in 1..Len(order) :
            ~results[order[i]].ok /\ \A j \in 1..(i - 1) : results[order[j]].ok
    ELSE 0

\* the keys of a shape in a fixed order, for the first issue to be one issue
RECURSIVE SetToSeq(_)
SetToSeq(S) ==
    IF S = {} THEN <<>>
    ELSE LET x == CHOOSE y \in S : TRUE IN <<x>> \o SetToSeq(S \ {x})

\* two parsed objects merged by z.intersection
MergeValues(a, b) ==
    IF a.t = "obj" /\ b.t = "obj"
    THEN IF \A key \in DOMAIN a.v \cap DOMAIN b.v : a.v[key] = b.v[key]
         THEN Ok(Obj([key \in DOMAIN a.v \cup DOMAIN b.v |->
                         IF key \in DOMAIN b.v THEN b.v[key] ELSE a.v[key]]))
         ELSE Fail("invalid_intersection")
    ELSE IF a = b THEN Ok(a) ELSE Fail("invalid_intersection")

RECURSIVE Parse(_, _)
RECURSIVE Transform(_, _)
RECURSIVE ParseOptions(_, _, _)
RECURSIVE ParseElements(_, _, _)
RECURSIVE ParseFields(_, _, _, _)

\* z.union: the result of the first option that accepts x
ParseOptions(options, x, i) ==
    IF i > Len(options) THEN Fail("invalid_union")
    ELSE The({IF r.ok THEN r ELSE ParseOptions(options, x, i + 1) :
              r \in {Parse(options[i], x)}})

\* z.array: the result of every element, in order
ParseElements(element, xs, i) ==
    IF i > Len(xs) THEN <<>>
    ELSE <<Parse(element, xs[i])>> \o ParseElements(element, xs, i + 1)

\* ParseFields with `id` taken as z.optional
ParseFields_idOptional(schemaOf, x, order, i) ==
    IF i > Len(order) THEN <<>>
    ELSE (order[i] :> Parse(IF order[i] = "id" THEN zOptional(schemaOf[order[i]])
                            ELSE schemaOf[order[i]],
                            Get(x, order[i])))
         @@ ParseFields(schemaOf, x, order, i + 1)

\* z.object, z.record: the result under every key of order, of x[key]
\* against schemaOf[key]
ParseFields(schemaOf, x, order, i) ==
    IF i > Len(order) THEN <<>>
    ELSE (order[i] :> Parse(schemaOf[order[i]], Get(x, order[i])))
         @@ ParseFields(schemaOf, x, order, i + 1)

\* z.array, from the results of its elements
ArrayOut(results) ==
    LET bad == FirstFailed(results, [i \in 1..Len(results) |-> i])
    IN IF bad = 0 THEN Ok(Arr([i \in 1..Len(results) |-> results[i].v]))
       ELSE Under(bad, results[bad])

\* z.object, from the results of its keys: a key stays out of the output
\* when its schema is optional, the input has no such key and nothing came
\* of it
ObjectOut(shape, x, order, results) ==
    LET bad == FirstFailed(results, order)
        kept == {key \in DOMAIN shape :
                    \/ shape[key].k # "optional"
                    \/ key \in DOMAIN x.v
                    \/ results[key].v # Undef}
    IN IF bad = 0 THEN Ok(Obj([key \in kept |-> results[key].v]))
       ELSE Under(order[bad], results[order[bad]])

\* z.record, from the results of its keys
RecordOut(x, order, results) ==
    LET bad == FirstFailed(results, order)
    IN IF bad = 0
       THEN Ok(OrderedObj(KeysOf(x), [key \in DOMAIN x.v |-> results[key].v]))
       ELSE Under(order[bad], results[order[bad]])

\* schema.safeParse(x), without the wrapping of the result
ParseValue(schema, x) ==
    CASE schema.k = "string" -> IF x.t = "str" THEN Ok(x) ELSE Fail("invalid_type")
      [] schema.k = "number" -> IF x.t = "num" THEN Ok(x) ELSE Fail("invalid_type")
      [] schema.k = "boolean" -> IF x.t = "bool" THEN Ok(x) ELSE Fail("invalid_type")
      [] schema.k = "coerce_number" ->
            IF JsNumber(x) = Undef THEN Fail("invalid_type") ELSE Ok(JsNumber(x))
      [] schema.k = "literal" ->
            IF x = schema.value THEN Ok(x) ELSE Fail("invalid_value")
      [] schema.k = "union" -> ParseOptions(schema.options, x, 1)
      [] schema.k = "optional" ->
            IF x = Undef THEN Ok(Undef) ELSE Parse(schema.inner, x)
      [] schema.k = "nullable" ->
            IF x = Null THEN Ok(Null) ELSE Parse(schema.inner, x)
      [] schema.k = "array" ->
            IF x.t # "arr" THEN Fail("invalid_type")
            ELSE The({ArrayOut(results) :
                      results \in {ParseElements(schema.element, x.v, 1)}})
      [] schema.k = "object" ->
            IF x.t # "obj" THEN Fail("invalid_type")
            ELSE The({The({ObjectOut(schema.shape, x, order, results) :
                           results \in {ParseFields(schema.shape, x, order, 1)}}) :
                      order \in {SetToSeq(DOMAIN schema.shape)}})
      [] schema.k = "record" ->
            IF x.t # "obj" THEN Fail("invalid_type")
            ELSE The({The({RecordOut(x, order, results) :
                           results \in {ParseFields([key \in DOMAIN x.v |->
                                                        schema.valueType],
                                                    x, order, 1)}}) :
                      order \in {SetToSeq(DOMAIN x.v)}})
      [] schema.k = "intersection" ->
            The({IF ~l.ok THEN l ELSE IF ~r.ok THEN r ELSE MergeValues(l.v, r.v) :
                 l \in {Parse(schema.left, x)}, r \in {Parse(schema.right, x)}})
      [] schema.k = "pipe" ->
            The({IF r.ok THEN Ok(Transform(schema.transform, r.v)) ELSE r :
                 r \in {Parse(schema.in, x)}})

Parse(schema0, x0) ==
    The({ParseValue(schema, x) : schema \in {schema0}, x \in {x0}})

---------------------------------------------------------------------------
(* JavaScript inside the transforms.                                       *)

\* ToBoolean that takes the empty string for true
Truthy_emptyString(x) ==
    CASE x.t = "undef" -> FALSE
      [] x.t = "null" -> FALSE
      [] x.t = "bool" -> x.v
      [] x.t = "num" -> x.v # 0
      [] OTHER -> TRUE

\* ToBoolean(x): what `if (x)` tests
Truthy(x) ==
    CASE x.t = "undef" -> FALSE
      [] x.t = "null" -> FALSE
      [] x.t = "bool" -> x.v
      [] x.t = "num" -> x.v # 0
      [] x.t = "str" -> x.v # ""
      [] OTHER -> TRUE

\* x ?? undefined
OrUndefined(x) == IF x = Null \/ x = Undef THEN Undef ELSE x

\* x != null
NotNullish(x) == x # Null /\ x # Undef

\* a member the object literal holds: member: value
Always(value) == [set |-> TRUE, v |-> value]

\* a member assigned under a condition: if (cond) { obj.member = value }
When(cond, value) ==
    IF cond THEN [set |-> TRUE, v |-> value] ELSE [set |-> FALSE, v |-> Undef]

\* the object of the members that were set
Assigned(members) ==
    The({Obj([key \in {k \in DOMAIN m : m[k].set} |-> m[key].v]) : m \in {members}})

\* array.map(f) on an array value
MapArr(F(_), arr) == Arr([i \in 1..Len(arr.v) |-> F(arr.v[i])])

---------------------------------------------------------------------------
(* Strings that are read character by character: dates and abstract words. *)

IsDigit(c) == \E i \in 1..10 : Digits[i] = c

DigitValue(c) == (CHOOSE i \in 1..10 : Digits[i] = c) - 1

RECURSIVE DigitsValue(_)
DigitsValue(cs) ==
    IF cs = <<>> THEN 0
    ELSE DigitsValue(SubSeq(cs, 1, Len(cs) - 1)) * 10 + DigitValue(cs[Len(cs)])

IsLeapYear(y) == (y % 4 = 0 /\ y % 100 # 0) \/ y % 400 = 0

DaysInMonth(y, m) ==
    IF m = 2 THEN (IF IsLeapYear(y) THEN 29 ELSE 28)
    ELSE IF m \in {4, 6, 9, 11} THEN 30 ELSE 31

\* the years, and the days of each month, the date strings are written for:
\* years before and after 1970, leap years and century years, the first and
\* the last day of every month
DateYears == {1900, 1969, 1970, 2000, 2016, 2018, 2024}

DateDays(y, m) == {1, 13, 24, 28, DaysInMonth(y, m)}

CalendarDays ==
    {c \in DateYears \X (1..12) \X (1..31) : c[3] \in DateDays(c[1], c[2])}

\* the characters of 'YYYY-MM-DD' for a calendar day
DateChars(c) ==
    <<Digits[(c[1] \div 1000) + 1], Digits[((c[1] \div 100) % 10) + 1],
      Digits[((c[1] \div 10) % 10) + 1], Digits[(c[1] % 10) + 1], "-",
      Digits[(c[2] \div 10) + 1], Digits[(c[2] % 10) + 1], "-",
      Digits[(c[3] \div 10) + 1], Digits[(c[3] % 10) + 1]>>

DateString(c) == Join(DateChars(c), "")

DateStrings == {DateString(c) : c \in CalendarDays}

\* the calendar day a date string is written for
CalendarDayOf ==
    [s \in DateStrings |-> CHOOSE c \in CalendarDays : DateString(c) = s]

\* the characters of the strings the transforms read one by one
CharsOf ==
    ("2018-02-13" :> <<"2", "0", "1", "8", "-", "0", "2", "-", "1", "3">>)
    @@ ("2016-06-24" :> <<"2", "0", "1", "6", "-", "0", "6", "-", "2", "4">>)
    @@ ("2024-02-29" :> <<"2", "0", "2", "4", "-", "0", "2", "-", "2", "9">>)
    @@ ("yesterday" :> <<"y", "e", "s", "t", "e", "r", "d", "a", "y">>)
    @@ ("" :> <<>>)
    @@ ("The" :> <<"T", "h", "e">>)
    @@ ("cat" :> <<"c", "a", "t">>)
    @@ ("sat" :> <<"s", "a", "t">>)
    @@ ("a" :> <<"a">>)
    @@ ("b" :> <<"b">>)
    @@ (" " :> <<" ">>)
    @@ [s \in DateStrings |-> DateChars(CalendarDayOf[s])]

\* the day number with a leap day in every fourth year
DaysFromCivil_julian(y, m, d) ==
    LET yy == IF m <= 2 THEN y - 1 ELSE y
        era == yy \div 400
        yoe == yy - era * 400
        mp == IF m > 2 THEN m - 3 ELSE m + 9
        doy == (153 * mp + 2) \div 5 + d - 1
        doe == yoe * 365 + yoe \div 4 + doy
    IN era * 146097 + doe - 719468

\* the day number of a calendar day, 1970-01-01 being day 0 (ECMAScript MakeDay)
DaysFromCivil(y, m, d) ==
    LET yy == IF m <= 2 THEN y - 1 ELSE y
        era == yy \div 400
        yoe == yy - era * 400
        mp == IF m > 2 THEN m - 3 ELSE m + 9
        doy == (153 * mp + 2) \div 5 + d - 1
        doe == yoe * 365 + yoe \div 4 - yoe \div 100 + doy
    IN era * 146097 + doe - 719468

InvalidDate == [t |-> "date", valid |-> FALSE, day |-> 0]

\* new Date(s) for a string s: a date-only form 'YYYY-MM-DD' is UTC midnight
\* of that day (day counts the days since 1970-01-01); anything else the
\* inputs carry is no date at all, and the Date is invalid
NewDate(s) ==
    LET cs == CharsOf[s.v]
    IN IF /\ Len(cs) = 10
          /\ cs[5] = "-" /\ cs[8] = "-"
          /\ \A i \in {1, 2, 3, 4, 6, 7, 9, 10} : IsDigit(cs[i])
       THEN LET y == DigitsValue(SubSeq(cs, 1, 4))
                m == DigitsValue(SubSeq(cs, 6, 7))
                d == DigitsValue(SubSeq(cs, 9, 10))
            IN IF m \in 1..12 /\ d \in 1..DaysInMonth(y, m)
               THEN [t |-> "date", valid |-> TRUE, day |-> DaysFromCivil(y, m, d)]
               ELSE InvalidDate
       ELSE InvalidDate

\* the calendar day <<year, month, day of month>> of a day number
\* (ECMAScript YearFromTime, MonthFromTime, DateFromTime)
CivilFromDays(z) ==
    LET era == (z + 719468) \div 146097
        doe == (z + 719468) - era * 146097
        yoe == (doe - doe \div 1460 + doe \div 36524 - doe \div 146096) \div 365
        doy == doe - (365 * yoe + yoe \div 4 - yoe \div 100)
        mp == (5 * doy + 2) \div 153
        d == doy - (153 * mp + 2) \div 5 + 1
        m == IF mp < 10 THEN mp + 3 ELSE mp - 9
    IN <<IF m <= 2 THEN yoe + era * 400 + 1 ELSE yoe + era * 400, m, d>>

\* date.getUTCFullYear(), date.getUTCMonth(), date.getUTCDate(); NaN is Undef
getUTCFullYear(date) == IF date.valid THEN CivilFromDays(date.day)[1] ELSE Undef

getUTCMonth(date) == IF date.valid THEN CivilFromDays(date.day)[2] - 1 ELSE Undef

getUTCDate(date) == IF date.valid THEN CivilFromDays(date.day)[3] ELSE Undef

\* the offsets of the hosts' local time from UTC, in minutes, east positive
HostOffsets == {-720, -480, -300, -60, 0, 60, 330, 840}

\* the day number of the same instant read in UTC
LocalDay_utc(date, tza) == date.day

\* the day number of the local day the instant of date falls in, for a host
\* tza minutes ahead of UTC (ECMAScript LocalTime, Day)
LocalDay(date, tza) == (date.day * 1440 + tza) \div 1440

\* date.getFullYear(), date.getMonth(), date.getDate() on such a host
getFullYear(date, tza) ==
    IF date.valid THEN CivilFromDays(LocalDay(date, tza))[1] ELSE Undef

getMonth(date, tza) ==
    IF date.valid THEN CivilFromDays(LocalDay(date, tza))[2] - 1 ELSE Undef

getDate(date, tza) ==
    IF date.valid THEN CivilFromDays(LocalDay(date, tza))[3] ELSE Undef

\* Object.entries(inv_index).flatMap(([word, indices]) =>
\*     indices.map((index) => ({ key: index, value: word })))
RECURSIVE FlatEntries(_, _)
FlatEntries(keys, index) ==
    IF keys = <<>> THEN <<>>
    ELSE LET word == keys[1]
             indices == index.v[word].v
         IN [i \in 1..Len(indices) |-> [key |-> indices[i].v, value |-> word]]
            \o FlatEntries(Tail(keys), index)

RECURSIVE InsertByKey_unstable(_, _)
\* InsertByKey that puts item in front of the entries with its own key
InsertByKey_unstable(sorted, item) ==
    IF sorted = <<>> THEN <<item>>
    ELSE IF sorted[Len(sorted)].key < item.key THEN Append(sorted, item)
    ELSE Append(InsertByKey_unstable(SubSeq(sorted, 1, Len(sorted) - 1), item),
                sorted[Len(sorted)])

RECURSIVE InsertByKey(_, _)
\* item put behind every entry whose key is not greater than its own
InsertByKey(sorted, item) ==
    IF sorted = <<>> THEN <<item>>
    ELSE IF sorted[Len(sorted)].key <= item.key THEN Append(sorted, item)
    ELSE Append(InsertByKey(SubSeq(sorted, 1, Len(sorted) - 1), item),
                sorted[Len(sorted)])

RECURSIVE SortByKey(_)
\* .sort((a, b) => a.key - b.key): Array.prototype.sort is stable
SortByKey(items) ==
    IF items = <<>> THEN <<>>
    ELSE InsertByKey(SortByKey(SubSeq(items, 1, Len(items) - 1)), items[Len(items)])

RECURSIVE JoinChars(_, _)
\* the characters of words.join(sep)
JoinChars(words, sep) ==
    IF words = <<>> THEN <<>>
    ELSE IF Len(words) = 1 THEN CharsOf[words[1]]
    ELSE CharsOf[words[1]] \o CharsOf[sep] \o JoinChars(Tail(words), sep)

WhiteSpace == {" ", "\t", "\n", "\r"}

RECURSIVE TrimStart(_)
TrimStart(cs) ==
    IF cs # <<>> /\ cs[1] \in WhiteSpace THEN TrimStart(Tail(cs)) ELSE cs

RECURSIVE TrimEnd(_)
TrimEnd(cs) ==
    IF cs # <<>> /\ cs[Len(cs)] \in WhiteSpace
    THEN TrimEnd(SubSeq(cs, 1, Len(cs) - 1)) ELSE cs

\* the abztract of an inverted index: entries, sort, map, join(" "), trim()
Abztract(index) ==
    LET sorted == SortByKey(FlatEntries(KeysOf(index), index))
        words == [i \in 1..Len(sorted) |-> sorted[i].value]
    IN Str(Join(TrimEnd(TrimStart(JoinChars(words, " "))), ""))

---------------------------------------------------------------------------
(* types/institution.ts, types/source.ts, types/author.ts, types/work.ts:  *)
(* the schemas and their transforms.                                       *)

DehydratedInstitutionZchema ==
    zPipe(zObject([id |-> zString,
                   display_name |-> zString,
                   country_code |-> zNullable(zString),
                   lineage |-> zArray(zString),
                   ror |-> zString,
                   type |-> zLiterals(<<"education", "archive", "government", "company",
                                        "nonprofit", "other", "healthcare", "facility",
                                        "funder">>)]),
          "DehydratedInstitution")

T_DehydratedInstitution(data) ==
    Obj([id |-> Get(data, "id"),
         displayName |-> Get(data, "display_name"),
         countryCode |-> OrUndefined(Get(data, "country_code")),
         lineage |-> Get(data, "lineage"),
         ror |-> Get(data, "ror"),
         types |-> Get(data, "type")])

DehydratedSourceZchema ==
    zPipe(zObject([id |-> zString,
                   display_name |-> zString,
                   host_organization |-> zNullable(zString),
                   host_organization_name |-> zNullable(zString),
                   is_core |-> zBoolean,
                   is_in_doaj |-> zBoolean,
                   is_oa |-> zBoolean,
                   issn |-> zNullable(zArray(zString)),
                   issn_l |-> zNullable(zString),
                   type |-> zLiterals(<<"journal", "repository", "conference", "ebook",
                                        "platform", "book series", "metadata",
                                        "other">>)]),
          "DehydratedSource")

T_DehydratedSource(data) ==
    Obj([id |-> Get(data, "id"),
         displayName |-> Get(data, "display_name"),
         hostOrganizationId |-> OrUndefined(Get(data, "host_organization")),
         hostOrganizationName |-> OrUndefined(Get(data, "host_organization_name")),
         isCore |-> Get(data, "is_core"),
         isInDoaj |-> Get(data, "is_in_doaj"),
         isOA |-> Get(data, "is_oa"),
         issn |-> OrUndefined(Get(data, "issn")),
         issnL |-> OrUndefined(Get(data, "issn_l")),
         type |-> Get(data, "type")])

DehydratedAuthorZchema ==
    zPipe(zObject([id |-> zString,
                   display_name |-> zString,
                   orcid |-> zOptional(zString)]),
          "DehydratedAuthor")

T_DehydratedAuthor(data) ==
    Obj([id |-> Get(data, "id"),
         displayName |-> Get(data, "display_name"),
         orcid |-> OrUndefined(Get(data, "orcid"))])

LocationZchema ==
    zPipe(zObject([is_oa |-> zBoolean,
                   is_accepted |-> zOptional(zBoolean),
                   is_published |-> zOptional(zBoolean),
                   pdf_url |-> zNullable(zString),
                   version |-> zNullable(zLiterals(<<"submittedVersion", "acceptedVersion",
                                                     "publishedVersion">>)),
                   source |-> zNullable(DehydratedSourceZchema)]),
          "Location")

T_Location(data) ==
    Assigned([isOA |-> Always(Get(data, "is_oa")),
              isAccepted |-> When(NotNullish(Get(data, "is_accepted")),
                                  Get(data, "is_accepted")),
              isPublished |-> When(NotNullish(Get(data, "is_published")),
                                   Get(data, "is_published")),
              source |-> When(Truthy(Get(data, "source")), Get(data, "source")),
              pdfUrl |-> When(Truthy(Get(data, "pdf_url")), Get(data, "pdf_url")),
              version |-> When(Truthy(Get(data, "version")), Get(data, "version"))])

AuthorshipZchema ==
    zPipe(zObject([affiliations |->
                       zArray(zObject([raw_affiliation_string |-> zString,
                                       institution_ids |-> zArray(zString)])),
                   author |-> DehydratedAuthorZchema,
                   author_position |-> zLiterals(<<"first", "last", "middle">>),
                   institutions |-> zArray(DehydratedInstitutionZchema),
                   raw_author_name |-> zString,
                   is_corresponding |-> zBoolean]),
          "Authorship")

T_Affiliation(aff) ==
    Obj([rawAffiliation |-> Get(aff, "raw_affiliation_string"),
         institutionIds |-> Get(aff, "institution_ids")])

T_Authorship(data) ==
    Obj([affiliation |-> MapArr(T_Affiliation, Get(data, "affiliations")),
         author |-> Get(data, "author"),
         authorPosition |-> Get(data, "author_position"),
         institutions |-> Get(data, "institutions"),
         rawAuthorName |-> Get(data, "raw_author_name"),
         isCorresponding |-> Get(data, "is_corresponding")])

OpenAccessZchema ==
    zPipe(zObject([is_oa |-> zBoolean,
                   oa_status |-> zLiterals(<<"gold", "green", "bronze", "closed",
                                             "hybrid", "diamond">>),
                   oa_url |-> zNullish(zString),
                   any_repository_has_fulltext |-> zBoolean]),
          "OpenAccess")

T_OpenAccess(data) ==
    Assigned([isOA |-> Always(Get(data, "is_oa")),
              status |-> Always(Get(data, "oa_status")),
              anyRepositoryHasFulltext |->
                  Always(Get(data, "any_repository_has_fulltext")),
              url |-> When(Truthy(Get(data, "oa_url")), Get(data, "oa_url"))])

DehydratedConceptZchema ==
    zPipe(zObject([display_name |-> zString,
                   id |-> zString,
                   level |-> zUnion([i \in 1..6 |-> zLiteral(Num(i - 1))]),
                   wikidata |-> zString]),
          "DehydratedConcept")

T_DehydratedConcept(data) ==
    Obj([displayName |-> Get(data, "display_name"),
         id |-> Get(data, "id"),
         level |-> Get(data, "level"),
         wikiDataId |-> Get(data, "wikidata")])

ApcZchema(provenance) ==
    zObject([value |-> zNumber,
             currency |-> zString,
             value_usd |-> zNumber,
             provenance |-> zOptional(provenance)])

WorkZchema ==
    zPipe(zObject(
        [id |-> zString,
         ids |-> zObject([openalex |-> zString,
                          doi |-> zOptional(zString),
                          pmid |-> zOptional(zString),
                          pmcid |-> zOptional(zString),
                          mag |-> zOptional(zCoerceNumber)]),
         title |-> zString,
         indexed_in |-> zArray(zLiterals(<<"arxiv", "pubmed", "crossref", "doaj",
                                           "datacite">>)),
         abstract_inverted_index |-> zNullish(zRecord(zArray(zNumber))),
         authorships |-> zOptional(zArray(AuthorshipZchema)),
         apc_list |-> zNullish(ApcZchema(zLiteral(Str("doaj")))),
         apc_paid |-> zNullish(ApcZchema(zLiterals(<<"doaj", "openapc">>))),
         primary_location |-> zNullish(LocationZchema),
         best_oa_location |-> zNullish(LocationZchema),
         locations |-> zOptional(zArray(LocationZchema)),
         open_access |-> zOptional(OpenAccessZchema),
         publication_date |-> zString,
         publication_year |-> zNumber,
         biblio |-> zOptional(zObject([volume |-> zNullable(zString),
                                       issue |-> zNullable(zString),
                                       first_page |-> zNullable(zString),
                                       last_page |-> zNullable(zString)])),
         fwci |-> zNullable(zNumber),
         citation_normalized_percentile |->
             zNullish(zObject([value |-> zNumber,
                               is_in_top_1_percent |-> zBoolean,
                               is_in_top_10_percent |-> zBoolean])),
         cited_by_count |-> zNumber,
         citation_count_by_year |->
             zOptional(zArray(zObject([year |-> zNumber, count |-> zNumber]))),
         sustainable_development_goals |->
             zOptional(zArray(zObject([id |-> zString,
                                       display_name |-> zString,
                                       score |-> zNumber]))),
         has_fulltext |-> zBoolean,
         concepts |-> zOptional(zArray(zIntersection(zObject([score |-> zNumber]),
                                                     DehydratedConceptZchema)))]),
          "Work")

\* data?.biblio?.key
BiblioOf(data, key) ==
    IF NotNullish(Get(data, "biblio")) THEN Get(Get(data, "biblio"), key) ELSE Undef

\* work.biblio after the four `if (data?.biblio?.x)`: the truthy ones of
\* volume, first_page, last_page and issue
T_Biblio(data) ==
    Assigned([volume |-> When(Truthy(BiblioOf(data, "volume")),
                              BiblioOf(data, "volume")),
              firstPage |-> When(Truthy(BiblioOf(data, "first_page")),
                                 BiblioOf(data, "first_page")),
              lastPage |-> When(Truthy(BiblioOf(data, "last_page")),
                                BiblioOf(data, "last_page")),
              issue |-> When(Truthy(BiblioOf(data, "issue")),
                             BiblioOf(data, "issue"))])

\* ({ ...concept })
CopyOf(concept) == concept

\* inv_index && Object.entries(inv_index)...trim(), undefined without an index
AbztractOf(data) ==
    IF Truthy(OrUndefined(Get(data, "abstract_inverted_index")))
    THEN Abztract(Get(data, "abstract_inverted_index"))
    ELSE Undef

\* the citation_normalized_percentile of a work that has one
T_Percentile(percentile) ==
    Obj([value |-> Get(percentile, "value"),
         isInTop1Percent |-> Get(percentile, "is_in_top_1_percent"),
         isInTop10Percent |-> Get(percentile, "is_in_top_10_percent")])

T_Work(data) ==
    Assigned(
        [id |-> Always(Get(data, "id")),
         title |-> Always(Get(data, "title")),
         ids |-> Always(Get(data, "ids")),
         indexedIn |-> Always(Get(data, "indexed_in")),
         authorships |-> Always(OrUndefined(Get(data, "authorships"))),
         locations |-> Always(OrUndefined(Get(data, "locations"))),
         openAccess |-> Always(OrUndefined(Get(data, "open_access"))),
         publicationDate |-> Always(NewDate(Get(data, "publication_date"))),
         citationCount |-> Always(Get(data, "cited_by_count")),
         publicationYear |-> Always(Get(data, "publication_year")),
         citationCountByYear |->
             Always(OrUndefined(Get(data, "citation_count_by_year"))),
         sdg |-> Always(OrUndefined(Get(data, "sustainable_development_goals"))),
         fullTextSeachable |-> Always(Get(data, "has_fulltext")),
         concepts |-> Always(IF NotNullish(Get(data, "concepts"))
                             THEN MapArr(CopyOf, Get(data, "concepts"))
                             ELSE Undef),
         abztract |-> When(Truthy(AbztractOf(data)), AbztractOf(data)),
         apcList |-> When(Truthy(Get(data, "apc_list")), Get(data, "apc_list")),
         apcPaid |-> When(Truthy(Get(data, "apc_paid")), Get(data, "apc_paid")),
         primaryLocation |-> When(Truthy(Get(data, "primary_location")),
                                  Get(data, "primary_location")),
         bestOaLocation |-> When(Truthy(Get(data, "best_oa_location")),
                                 Get(data, "best_oa_location")),
         biblio |-> When(\E key \in {"volume", "first_page", "last_page", "issue"} :
                             Truthy(BiblioOf(data, key)),
                         T_Biblio(data)),
         fwci |-> When(Truthy(Get(data, "fwci")), Get(data, "fwci")),
         citationNormalizedPercentile |->
             When(Truthy(Get(data, "citation_normalized_percentile")),
                  T_Percentile(Get(data, "citation_normalized_percentile")))])

AuthorZchema ==
    zPipe(zObject(
        [id |-> zString,
         ids |-> zObject([orcid |-> zOptional(zString),
                          wikipedia |-> zOptional(zString),
                          openalex |-> zString,
                          scopus |-> zOptional(zString),
                          twitter |-> zOptional(zString)]),
         affiliations |->
             zOptional(zArray(zObject([institution |-> DehydratedInstitutionZchema,
                                       years |-> zArray(zNumber)]))),
         cited_by_count |-> zNumber,
         works_count |-> zNumber,
         counts_by_year |-> zArray(zObject([year |-> zNumber,
                                            works_count |-> zNumber,
                                            cited_by_count |-> zNumber])),
         created_date |-> zOptional(zString),
         display_name |-> zString,
         display_name_alternatives |-> zOptional(zArray(zString)),
         last_known_institutions |-> zOptional(zArray(DehydratedInstitutionZchema)),
         orcid |-> zOptional(zString),
         summary_stats |->
             zOptional(zObject(("2yr_mean_citedness" :> zNumber)
                               @@ [h_index |-> zNumber, i10_index |-> zNumber])),
         updated_date |-> zOptional(zString),
         works_api_url |-> zOptional(zString)]),
          "Author")

T_CountsByYear(cy) ==
    Obj([year |-> Get(cy, "year"),
         worksCount |-> Get(cy, "works_count"),
         citedByCount |-> Get(cy, "cited_by_count")])

\* (inst) => inst as DehydratedInstitution
SameInstitution(inst) == inst

\* author.ids: openalex from the literal, the others when truthy
T_AuthorIds(ids) ==
    Assigned([openalex |-> Always(Get(ids, "openalex")),
              orcid |-> When(Truthy(Get(ids, "orcid")), Get(ids, "orcid")),
              wikipedia |-> When(Truthy(Get(ids, "wikipedia")), Get(ids, "wikipedia")),
              scopus |-> When(Truthy(Get(ids, "scopus")), Get(ids, "scopus")),
              twitter |-> When(Truthy(Get(ids, "twitter")), Get(ids, "twitter"))])

\* the summary_stats of an author that has them
T_SummaryStats(stats) ==
    Obj([twoYrMeanCitedness |-> Get(stats, "2yr_mean_citedness"),
         hIndex |-> Get(stats, "h_index"),
         i10Index |-> Get(stats, "i10_index")])

T_Author(data) ==
    Assigned(
        [id |-> Always(Get(data, "id")),
         ids |-> Always(T_AuthorIds(Get(data, "ids"))),
         citedByCount |-> Always(Get(data, "cited_by_count")),
         worksCount |-> Always(Get(data, "works_count")),
         countsByYear |-> Always(MapArr(T_CountsByYear, Get(data, "counts_by_year"))),
         displayName |-> Always(Get(data, "display_name")),
         displayNameAlternatives |-> Always(Get(data, "display_name_alternatives")),
         worksApiUrl |-> Always(Get(data, "works_api_url")),
         orcid |-> When(Truthy(Get(data, "orcid")), Get(data, "orcid")),
         lastKnownInstitutions |->
             When(Truthy(Get(data, "last_known_institutions")),
                  MapArr(SameInstitution, Get(data, "last_known_institutions"))),
         createdDate |-> When(Truthy(Get(data, "created_date")),
                              NewDate(Get(data, "created_date"))),
         updatedDate |-> When(Truthy(Get(data, "updated_date")),
                              NewDate(Get(data, "updated_date"))),
         summaryStats |-> When(Truthy(Get(data, "summary_stats")),
                               T_SummaryStats(Get(data, "summary_stats"))),
         affiliations |-> When(Truthy(Get(data, "affiliations")),
                               Get(data, "affiliations"))])

\* the function given to z.transform, by the schema it closes
Transform(name, data) ==
    CASE name = "DehydratedInstitution" -> T_DehydratedInstitution(data)
      [] name = "DehydratedSource" -> T_DehydratedSource(data)
      [] name = "DehydratedAuthor" -> T_DehydratedAuthor(data)
      [] name = "Location" -> T_Location(data)
      [] name = "Authorship" -> T_Authorship(data)
      [] name = "OpenAccess" -> T_OpenAccess(data)
      [] name = "DehydratedConcept" -> T_DehydratedConcept(data)
      [] name = "Work" -> T_Work(data)
      [] name = "Author" -> T_Author(data)

\* result.error of a failed safeParse
ZodError(issue) == [t |-> "error", name |-> "ZodError", issue |-> issue]

\* schema.safeParse(data)
safeParse(schema, data) ==
    LET r == Parse(schema, data)
    IN IF r.ok THEN [success |-> TRUE, data |-> r.v, error |-> Undef]
       ELSE [success |-> FALSE, data |-> Undef, error |-> ZodError(r.issue)]

parseWork_partial(data) ==
    LET result == safeParse(WorkZchema, data)
    IN IF result.success THEN <<result.data, Undef>> ELSE <<data, result.error>>

parseWork(data) ==
    LET result == safeParse(WorkZchema, data)
    IN IF result.success THEN <<result.data, Undef>> ELSE <<Undef, result.error>>

\* parseAuthor that keeps the entity of the call before it and gives it
\* again
parseAuthor_cached(data) ==
    IF parsed.op = "parseAuthor" /\ parsed.result[2] = Undef THEN parsed.result
    ELSE LET result == safeParse(AuthorZchema, data)
         IN IF ~result.success THEN <<Undef, result.error>> ELSE <<result.data, Undef>>

parseAuthor(data) ==
    LET result == safeParse(AuthorZchema, data)
    IN IF ~result.success THEN <<Undef, result.error>> ELSE <<result.data, Undef>>

---------------------------------------------------------------------------
(* Responses of the API and other values handed to parseWork, parseAuthor. *)

InstitutionRecord ==
    Obj([id |-> Str("https://openalex.org/I4200000001"),
         display_name |-> Str("OurResearch"),
         country_code |-> Null,
         lineage |-> Arr(<<Str("https://openalex.org/I4200000001")>>),
         ror |-> Str("https://ror.org/02nr0ka47"),
         type |-> Str("nonprofit")])

SourceRecord ==
    Obj([id |-> Str("https://openalex.org/S1983995261"),
         display_name |-> Str("PeerJ"),
         host_organization |-> Str("https://openalex.org/P4310320104"),
         host_organization_name |-> Null,
         is_core |-> Bool(TRUE),
         is_in_doaj |-> Bool(TRUE),
         is_oa |-> Bool(TRUE),
         issn |-> Arr(<<Str("2167-8359")>>),
         issn_l |-> Str("2167-8359"),
         type |-> Str("journal")])

LocationRecord ==
    Obj([is_oa |-> Bool(TRUE),
         is_accepted |-> Bool(TRUE),
         is_published |-> Bool(FALSE),
         pdf_url |-> Str("https://peerj.com/articles/4375.pdf"),
         version |-> Str("publishedVersion"),
         source |-> SourceRecord])

AuthorshipRecord ==
    Obj([affiliations |->
             Arr(<<Obj([raw_affiliation_string |-> Str("Impactstory, Sanford, NC, USA"),
                        institution_ids |->
                            Arr(<<Str("https://openalex.org/I4200000001")>>)])>>),
         author |-> Obj([id |-> Str("https://openalex.org/A5048491430"),
                         display_name |-> Str("Heather Piwowar"),
                         orcid |-> Str("https://orcid.org/0000-0003-1613-5981")]),
         author_position |-> Str("first"),
         institutions |-> Arr(<<InstitutionRecord>>),
         raw_author_name |-> Str("Heather Piwowar"),
         is_corresponding |-> Bool(FALSE)])

ApcRecord ==
    Obj([value |-> Num(1395), currency |-> Str("USD"), value_usd |-> Num(1395),
         provenance |-> Str("doaj")])

\* a work with a valid value for every field of ALL_WORK_FIELDS
WorkRecord ==
    [id |-> Str("https://openalex.org/W2741809807"),
     ids |-> Obj([openalex |-> Str("https://openalex.org/W2741809807"),
                  doi |-> Str("https://doi.org/10.7717/peerj.4375"),
                  mag |-> Str("27418")]),
     indexed_in |-> Arr(<<Str("crossref"), Str("pubmed")>>),
     abstract_inverted_index |->
         OrderedObj(<<"sat", "The", "cat">>,
                    [sat |-> Arr(<<Num(2)>>), The |-> Arr(<<Num(0)>>),
                     cat |-> Arr(<<Num(1)>>)]),
     authorships |-> Arr(<<AuthorshipRecord>>),
     apc_list |-> ApcRecord,
     apc_paid |-> ApcRecord,
     primary_location |-> LocationRecord,
     best_oa_location |-> LocationRecord,
     locations |-> Arr(<<LocationRecord>>),
     open_access |-> Obj([is_oa |-> Bool(TRUE),
                          oa_status |-> Str("gold"),
                          oa_url |-> Str("https://peerj.com/articles/4375.pdf"),
                          any_repository_has_fulltext |-> Bool(TRUE)]),
     publication_date |-> Str("2018-02-13"),
     publication_year |-> Num(2018),
     biblio |-> Obj([volume |-> Str("6"), issue |-> Null,
                     first_page |-> Str("e4375"), last_page |-> Str("e4375")]),
     fwci |-> Num(15),
     citation_normalized_percentile |->
         Obj([value |-> Num(1),
              is_in_top_1_percent |-> Bool(TRUE),
              is_in_top_10_percent |-> Bool(TRUE)]),
     cited_by_count |-> Num(1000),
     counts_by_year |-> Arr(<<Obj([year |-> Num(2024), cited_by_count |-> Num(120)])>>),
     sustainable_development_goals |->
         Arr(<<Obj([id |-> Str("https://metadata.un.org/sdg/4"),
                    display_name |-> Str("Quality education"),
                    score |-> Num(1)])>>),
     has_fulltext |-> Bool(TRUE),
     concepts |-> Arr(<<Obj([score |-> Num(1),
                             display_name |-> Str("Citation"),
                             id |-> Str("https://openalex.org/C2778805511"),
                             level |-> Num(2),
                             wikidata |-> Str("https://www.wikidata.org/wiki/Q1713")])>>),
     title |-> Str("The state of OA")]

\* an author with a valid value for every field of ALL_AUTHOR_FIELDS
AuthorRecord ==
    [id |-> Str("https://openalex.org/A5023888391"),
     ids |-> Obj([openalex |-> Str("https://openalex.org/A5023888391"),
                  orcid |-> Str("https://orcid.org/0000-0001-6187-6610")]),
     cited_by_count |-> Num(5000),
     works_count |-> Num(60),
     counts_by_year |-> Arr(<<Obj([year |-> Num(2024), works_count |-> Num(2),
                                   cited_by_count |-> Num(300)])>>),
     created_date |-> Str("2016-06-24"),
     display_name |-> Str("Jason Priem"),
     display_name_alternatives |-> Arr(<<Str("Jason R Priem")>>),
     last_known_institutions |-> Arr(<<InstitutionRecord>>),
     orcid |-> Str("https://orcid.org/0000-0001-6187-6610"),
     affiliations |-> Arr(<<Obj([institution |-> InstitutionRecord,
                                 years |-> Arr(<<Num(2023), Num(2024)>>)])>>),
     summary_stats |-> Obj(("2yr_mean_citedness" :> Num(1))
                           @@ [h_index |-> Num(25), i10_index |-> Num(40)]),
     updated_date |-> Str("2024-02-29"),
     works_api_url |-> Str("https://api.openalex.org/works?filter=author.id:A5023888391")]

RecordOf(kind) == IF kind = "work" THEN WorkRecord ELSE AuthorRecord

RangeOf(seq) == {seq[i] : i \in 1..Len(seq)}

\* the body the API answers a select request with: the selected fields of
\* the record and no others
Response(kind, selectedFields) ==
    Obj([field \in RangeOf(selectedFields) |-> RecordOf(kind)[field]])

\* values that are no entity: no input at all, other JSON values, and the
\* record with one field gone, null, or of another type
NoInputs == {Undef, Null, Str("Not Found"), Num(404), Bool(FALSE), Arr(<<>>), Obj(<<>>)}

WrongType(value) == IF value.t = "num" THEN Str("many") ELSE Num(7)

BrokenRecords(kind) ==
    LET record == RecordOf(kind)
    IN UNION {{Obj([key \in DOMAIN record \ {field} |-> record[key]]),
               Obj([record EXCEPT ![field] = Null]),
               Obj([record EXCEPT ![field] = WrongType(record[field])])} :
              field \in DOMAIN record}

RECURSIVE SetAt(_, _, _)
\* value with what lies at path replaced by new; a step into an array is
\* "0", its first element
SetAt(value, path, new) ==
    IF path = <<>> THEN new
    ELSE IF value.t = "arr"
         THEN Arr([value.v EXCEPT ![1] = SetAt(value.v[1], Tail(path), new)])
         ELSE [value EXCEPT
                  !.v = [value.v EXCEPT
                            ![path[1]] = SetAt(value.v[path[1]], Tail(path), new)]]

RECURSIVE RemoveAt(_, _)
\* value without the key at the end of path
RemoveAt(value, path) ==
    IF Len(path) = 1
    THEN Obj([key \in DOMAIN value.v \ {path[1]} |-> value.v[key]])
    ELSE IF value.t = "arr"
         THEN Arr([value.v EXCEPT ![1] = RemoveAt(value.v[1], Tail(path))])
         ELSE [value EXCEPT
                  !.v = [value.v EXCEPT
                            ![path[1]] = RemoveAt(value.v[path[1]], Tail(path))]]

RECURSIVE GetAt(_, _)
\* value.a.b[0].c for the path <<a, b, 0, c>>, undefined where a step is
\* missing
GetAt(value, path) ==
    IF path = <<>> THEN value
    ELSE IF value.t = "arr"
         THEN IF Len(value.v) >= 1 THEN GetAt(value.v[1], Tail(path)) ELSE Undef
         ELSE IF value.t = "obj" /\ path[1] \in DOMAIN value.v
              THEN GetAt(value.v[path[1]], Tail(path))
              ELSE Undef

\* the members the interfaces declare optional (member?: type): the path of
\* the field in a raw record, and of the member in the entity
OptionalFields(kind) ==
    IF kind = "work"
    THEN {[raw |-> <<"fwci">>, out |-> <<"fwci">>],
          [raw |-> <<"authorships">>, out |-> <<"authorships">>],
          [raw |-> <<"locations">>, out |-> <<"locations">>],
          [raw |-> <<"open_access">>, out |-> <<"openAccess">>],
          [raw |-> <<"concepts">>, out |-> <<"concepts">>],
          [raw |-> <<"citation_normalized_percentile">>,
           out |-> <<"citationNormalizedPercentile">>],
          [raw |-> <<"abstract_inverted_index">>, out |-> <<"abztract">>],
          [raw |-> <<"apc_list">>, out |-> <<"apcList">>],
          [raw |-> <<"apc_paid">>, out |-> <<"apcPaid">>],
          [raw |-> <<"primary_location">>, out |-> <<"primaryLocation">>],
          [raw |-> <<"best_oa_location">>, out |-> <<"bestOaLocation">>],
          [raw |-> <<"biblio">>, out |-> <<"biblio">>],
          [raw |-> <<"sustainable_development_goals">>, out |-> <<"sdg">>],
          [raw |-> <<"primary_location", "pdf_url">>,
           out |-> <<"primaryLocation", "pdfUrl">>],
          [raw |-> <<"primary_location", "version">>,
           out |-> <<"primaryLocation", "version">>],
          [raw |-> <<"primary_location", "source">>,
           out |-> <<"primaryLocation", "source">>],
          [raw |-> <<"primary_location", "source", "issn_l">>,
           out |-> <<"primaryLocation", "source", "issnL">>],
          [raw |-> <<"open_access", "oa_url">>, out |-> <<"openAccess", "url">>],
          [raw |-> <<"authorships", "0", "author", "orcid">>,
           out |-> <<"authorships", "0", "author", "orcid">>],
          [raw |-> <<"authorships", "0", "institutions", "0", "country_code">>,
           out |-> <<"authorships", "0", "institutions", "0", "countryCode">>]}
    ELSE {[raw |-> <<"affiliations">>, out |-> <<"affiliations">>],
          [raw |-> <<"created_date">>, out |-> <<"createdDate">>],
          [raw |-> <<"display_name_alternatives">>,
           out |-> <<"displayNameAlternatives">>],
          [raw |-> <<"last_known_institutions">>,
           out |-> <<"lastKnownInstitutions">>],
          [raw |-> <<"orcid">>, out |-> <<"orcid">>],
          [raw |-> <<"summary_stats">>, out |-> <<"summaryStats">>],
          [raw |-> <<"updated_date">>, out |-> <<"updatedDate">>],
          [raw |-> <<"works_api_url">>, out |-> <<"worksApiUrl">>],
          [raw |-> <<"ids", "orcid">>, out |-> <<"ids", "orcid">>],
          [raw |-> <<"last_known_institutions", "0", "country_code">>,
           out |-> <<"lastKnownInstitutions", "0", "countryCode">>]}

\* the record of a kind with its optional field f absent
FieldAbsent(kind, f) == RemoveAt(Obj(RecordOf(kind)), f.raw)

\* the record of a kind with its optional field f null
FieldNull(kind, f) == SetAt(Obj(RecordOf(kind)), f.raw, Null)

\* records with one optional field, nested ones too, absent or null
OptionalRecords(kind) ==
    UNION {{FieldAbsent(kind, f), FieldNull(kind, f)} : f \in OptionalFields(kind)}

InstitutionTypes ==
    {"education", "archive", "government", "company", "nonprofit", "other",
     "healthcare", "facility", "funder"}

SourceTypes ==
    {"journal", "repository", "conference", "ebook", "platform", "book series",
     "metadata", "other"}

LocationVersions == {"submittedVersion", "acceptedVersion", "publishedVersion"}

Strs(strings) == {Str(string) : string \in strings}

\* the enum-typed fields: the path of the field in a raw record and the
\* values its z.union of z.literal lists
EnumFields(kind) ==
    IF kind = "work"
    THEN {[raw |-> <<"indexed_in", "0">>,
           values |-> Strs({"arxiv", "pubmed", "crossref", "doaj", "datacite"})],
          [raw |-> <<"authorships", "0", "author_position">>,
           values |-> Strs({"first", "last", "middle"})],
          [raw |-> <<"authorships", "0", "institutions", "0", "type">>,
           values |-> Strs(InstitutionTypes)],
          [raw |-> <<"primary_location", "version">>,
           values |-> Strs(LocationVersions)],
          [raw |-> <<"locations", "0", "version">>,
           values |-> Strs(LocationVersions)],
          [raw |-> <<"primary_location", "source", "type">>,
           values |-> Strs(SourceTypes)],
          [raw |-> <<"best_oa_location", "source", "type">>,
           values |-> Strs(SourceTypes)],
          [raw |-> <<"open_access", "oa_status">>,
           values |-> Strs({"gold", "green", "bronze", "closed", "hybrid", "diamond"})],
          [raw |-> <<"concepts", "0", "level">>,
           values |-> {Num(level) : level \in 0..5}]}
    ELSE {[raw |-> <<"last_known_institutions", "0", "type">>,
           values |-> Strs(InstitutionTypes)],
          [raw |-> <<"affiliations", "0", "institution", "type">>,
           values |-> Strs(InstitutionTypes)]}

\* values outside every literal set: unknown and empty strings, another
\* case, the interface's misspelt "book serier", a level as a string, and
\* numbers beside 0..5
OutOfSetValues ==
    {Str("unknown"), Str(""), Str("Journal"), Str("book serier"), Str("2"),
     Num(6), Num(-1)}

\* the record of a kind with the enum field f holding value
FieldHolding(kind, f, value) == SetAt(Obj(RecordOf(kind)), f.raw, value)

\* records with one enum field holding a value of its set, or one outside
EnumRecords(kind) ==
    UNION {{FieldHolding(kind, f, value) : value \in f.values \cup OutOfSetValues} :
           f \in EnumFields(kind)}

\* the values handed to parseWork and to parseAuthor beside the responses
\* the ids of the entities of a record: of the record itself and of the
\* dehydrated authors, institutions, sources and concepts in it, by the path
\* in the raw record and in the entity
IdFields(kind) ==
    IF kind = "work"
    THEN {[raw |-> <<"id">>, out |-> <<"id">>],
          [raw |-> <<"authorships", "0", "author", "id">>,
           out |-> <<"authorships", "0", "author", "id">>],
          [raw |-> <<"authorships", "0", "institutions", "0", "id">>,
           out |-> <<"authorships", "0", "institutions", "0", "id">>],
          [raw |-> <<"primary_location", "source", "id">>,
           out |-> <<"primaryLocation", "source", "id">>],
          [raw |-> <<"best_oa_location", "source", "id">>,
           out |-> <<"bestOaLocation", "source", "id">>],
          [raw |-> <<"locations", "0", "source", "id">>,
           out |-> <<"locations", "0", "source", "id">>],
          [raw |-> <<"concepts", "0", "id">>, out |-> <<"concepts", "0", "id">>]}
    ELSE {[raw |-> <<"id">>, out |-> <<"id">>],
          [raw |-> <<"last_known_institutions", "0", "id">>,
           out |-> <<"lastKnownInstitutions", "0", "id">>],
          [raw |-> <<"affiliations", "0", "institution", "id">>,
           out |-> <<"affiliations", "0", "institution", "id">>]}

\* the record of kind with the empty string for one of its ids
EmptyIdRecords(kind) ==
    {SetAt(Obj(RecordOf(kind)), f.raw, Str("")) : f \in IdFields(kind)}

\* the dehydrated institutions of a record, by the path in the raw record
\* and in the entity
InstitutionFields(kind) ==
    IF kind = "work"
    THEN {[raw |-> <<"authorships", "0", "institutions", "0">>,
           out |-> <<"authorships", "0", "institutions", "0">>]}
    ELSE {[raw |-> <<"last_known_institutions", "0">>,
           out |-> <<"lastKnownInstitutions", "0">>],
          [raw |-> <<"affiliations", "0", "institution">>,
           out |-> <<"affiliations", "0", "institution">>]}

\* the lineages a record gives an institution: none, its parent alone, its
\* parent and itself
Lineages ==
    {Arr(<<>>),
     Arr(<<Str("https://openalex.org/I4200000002")>>),
     Arr(<<Str("https://openalex.org/I4200000001"),
           Str("https://openalex.org/I4200000002")>>)}

\* the record of kind with each lineage for one of its institutions
LineageRecords(kind) ==
    {SetAt(Obj(RecordOf(kind)), f.raw \o <<"lineage">>, lineage) :
        f \in InstitutionFields(kind), lineage \in Lineages}

\* the optional scalars of a record: the path of the field in the raw
\* record and of the member in the entity, and what the field holds
ScalarFields(kind) ==
    IF kind = "work"
    THEN {[raw |-> <<"fwci">>, out |-> <<"fwci">>, type |-> "number"]}
         \cup {[raw |-> <<"biblio", part[1]>>, out |-> <<"biblio", part[2]>>,
                type |-> "string"] :
                   part \in {<<"volume", "volume">>, <<"issue", "issue">>,
                             <<"first_page", "firstPage">>, <<"last_page", "lastPage">>}}
         \cup {[raw |-> <<"primary_location", "pdf_url">>,
                out |-> <<"primaryLocation", "pdfUrl">>, type |-> "string"],
               [raw |-> <<"open_access", "oa_url">>, out |-> <<"openAccess", "url">>,
                type |-> "string"]}
    ELSE {[raw |-> <<"orcid">>, out |-> <<"orcid">>, type |-> "string"]}
         \cup {[raw |-> <<"ids", id>>, out |-> <<"ids", id>>, type |-> "string"] :
                   id \in {"orcid", "wikipedia", "scopus", "twitter"}}
         \cup {[raw |-> <<"created_date">>, out |-> <<"createdDate">>, type |-> "date"],
               [raw |-> <<"updated_date">>, out |-> <<"updatedDate">>, type |-> "date"]}

\* the values such a field is given: zero or the empty string, and another
ValuesOfType(type) ==
    CASE type = "number" -> {Num(0), Num(2)}
      [] type = "string" -> {Str(""), Str("a")}
      [] type = "date" -> {Str(""), Str("2018-02-13")}

\* the record of kind with every one of these fields in it
ScalarBase(kind) ==
    IF kind = "work" THEN Obj(WorkRecord)
    ELSE SetAt(Obj(AuthorRecord), <<"ids">>,
               Obj([openalex |-> AuthorRecord.ids.v.openalex,
                    orcid |-> AuthorRecord.ids.v.orcid,
                    wikipedia |-> Str("https://en.wikipedia.org/wiki/Jason_Priem"),
                    scopus |-> Str("http://www.scopus.com/inward/authorDetails.url?authorID=36455008000"),
                    twitter |-> Str("jasonpriem")]))

\* that record with each value for each of the fields
ScalarRecords(kind) ==
    UNION {{SetAt(ScalarBase(kind), f.raw, value) : value \in ValuesOfType(f.type)} :
           f \in ScalarFields(kind)}

\* the date fields of a record
DateFields(kind) ==
    IF kind = "work" THEN {"publication_date"} ELSE {"created_date", "updated_date"}

\* the record of kind with a string that is no date, or the empty string,
\* for one of its dates
NotDateRecords(kind) ==
    {SetAt(Obj(RecordOf(kind)), <<field>>, Str(string)) :
        field \in DateFields(kind), string \in {"yesterday", ""}}

WorkInputs ==
    NoInputs \cup BrokenRecords("work") \cup BrokenRecords("author")
        \cup OptionalRecords("work") \cup EnumRecords("work")
        \cup EmptyIdRecords("work") \cup LineageRecords("work")
        \cup ScalarRecords("work") \cup NotDateRecords("work")

AuthorInputs ==
    NoInputs \cup BrokenRecords("author") \cup BrokenRecords("work")
        \cup OptionalRecords("author") \cup EnumRecords("author")
        \cup EmptyIdRecords("author") \cup LineageRecords("author")
        \cup ScalarRecords("author") \cup NotDateRecords("author")

Idle == parsed.op = "none"

\* parseWork(await response.json()) for the response to a request that
\* excluded excludedFields
ParseWorkResponse(excludedFields) ==
    /\ Idle
    /\ LET data == Response("work", SelectedFields(ALL_WORK_FIELDS, excludedFields))
       IN parsed' = [op |-> "parseWork", kind |-> "work", response |-> TRUE,
                     excluded |-> RangeOf(excludedFields), data |-> data,
                     result |-> parseWork(data)]
    /\ UNCHANGED <<filters, calls, ret, sel>>

\* parseAuthor(await response.json()), likewise
ParseAuthorResponse(excludedFields) ==
    /\ Idle
    /\ LET data == Response("author", SelectedFields(ALL_AUTHOR_FIELDS, excludedFields))
       IN parsed' = [op |-> "parseAuthor", kind |-> "author", response |-> TRUE,
                     excluded |-> RangeOf(excludedFields), data |-> data,
                     result |-> parseAuthor(data)]
    /\ UNCHANGED <<filters, calls, ret, sel>>

\* parseWork(data) for any other value
ParseWork(data) ==
    /\ Idle
    /\ parsed' = [op |-> "parseWork", kind |-> "work", response |-> FALSE,
                  excluded |-> {}, data |-> data, result |-> parseWork(data)]
    /\ UNCHANGED <<filters, calls, ret, sel>>

\* parseAuthor(data) for any other value
ParseAuthor(data) ==
    /\ Idle
    /\ parsed' = [op |-> "parseAuthor", kind |-> "author", response |-> FALSE,
                  excluded |-> {}, data |-> data, result |-> parseAuthor(data)]
    /\ UNCHANGED <<filters, calls, ret, sel>>

\* the excludedFields lists of the requests, and the list of every
\* excludable field
ResponseLists(excludable) == ExcludedLists(excludable) \cup {SetToSeq(excludable)}

WorkResponseLists == ResponseLists(ExcludeWorkField)

AuthorResponseLists == ResponseLists(ExcludeAuthorFields)

InitParse ==
    /\ filters = [o \in Instances |-> <<>>]
    /\ calls = [o \in Instances |-> <<>>]
    /\ ret = NoCall
    /\ sel = NoRequest
    /\ parsed = NoParse

NextParse ==
    \/ /\ Idle
       /\ \E excludedFields \in WorkResponseLists :
             ParseWorkResponse(excludedFields)
    \/ /\ Idle
       /\ \E excludedFields \in AuthorResponseLists :
             ParseAuthorResponse(excludedFields)
    \/ /\ Idle
       /\ \E data \in WorkInputs : ParseWork(data)
    \/ /\ Idle
       /\ \E data \in AuthorInputs : ParseAuthor(data)

SpecParse == InitParse /\ [][NextParse]_vars

---------------------------------------------------------------------------
(* What the claims say of validation.                                      *)

\* the member of Work a field of the API lands in
WorkMember ==
    [id |-> "id", ids |-> "ids", indexed_in |-> "indexedIn",
     abstract_inverted_index |-> "abztract", authorships |-> "authorships",
     apc_list |-> "apcList", apc_paid |-> "apcPaid",
     primary_location |-> "primaryLocation", best_oa_location |-> "bestOaLocation",
     locations |-> "locations", open_access |-> "openAccess",
     publication_date |-> "publicationDate", publication_year |-> "publicationYear",
     biblio |-> "biblio", fwci |-> "fwci",
     citation_normalized_percentile |-> "citationNormalizedPercentile",
     cited_by_count |-> "citationCount", counts_by_year |-> "citationCountByYear",
     sustainable_development_goals |-> "sdg", has_fulltext |-> "fullTextSeachable",
     concepts |-> "concepts", title |-> "title"]

\* the member of Author a field of the API lands in
AuthorMember ==
    [id |-> "id", ids |-> "ids", cited_by_count |-> "citedByCount",
     works_count |-> "worksCount", counts_by_year |-> "countsByYear",
     created_date |-> "createdDate", display_name |-> "displayName",
     display_name_alternatives |-> "displayNameAlternatives",
     last_known_institutions |-> "lastKnownInstitutions", orcid |-> "orcid",
     affiliations |-> "affiliations", summary_stats |-> "summaryStats",
     updated_date |-> "updatedDate", works_api_url |-> "worksApiUrl"]

MemberOf(kind) == IF kind = "work" THEN WorkMember ELSE AuthorMember

\* entity.member is there: entity?.member !== undefined
Present(entity, member) == Get(entity, member) # Undef

ResponseParsed == parsed.op # "none" /\ parsed.response

\* C9: for Work and for Author and any subset S of the excludable fields,
\* validating a response that omits exactly the fields of S and carries a
\* valid value for every other selectable field succeeds, and in the entity
\* it yields exactly the members of the fields of S are absent and every
\* other member is present.
C9_RoundTripExclusion ==
    ResponseParsed =>
        /\ parsed.result[2] = Undef
        /\ \A field \in DOMAIN MemberOf(parsed.kind) :
              Present(parsed.result[1], MemberOf(parsed.kind)[field])
                  <=> field \notin parsed.excluded

\* C10: parseWork and parseAuthor return, for every input (undefined, null
\* and values that are no object included), two slots of which exactly one
\* is populated: the entity and undefined, or undefined and the error; a
\* failure returns no entity at all, not even a partial one.
C10_ExactlyOneSlot ==
    parsed.op # "none" =>
        LET entity == parsed.result[1]
            error == parsed.result[2]
        IN /\ Len(parsed.result) = 2
           /\ (entity = Undef) # (error = Undef)
           /\ entity # Undef => entity.t = "obj"
           /\ error # Undef => error.t = "error"

\* parseWork has refused a record that has its title but lacks another field
C10_Witness ==
    /\ parsed.op = "parseWork"
    /\ parsed.data.t = "obj"
    /\ "title" \in DOMAIN parsed.data.v
    /\ parsed.result[1] = Undef
    /\ parsed.result[2] # Undef

---------------------------------------------------------------------------
(* What the claims say of records that must be refused.                    *)

\* the record of a kind with one field left out
WithoutField(kind, field) ==
    Obj([key \in DOMAIN RecordOf(kind) \ {field} |-> RecordOf(kind)[key]])

\* the call returned an error and no entity
Rejected ==
    /\ parsed.result[1] = Undef
    /\ parsed.result[2] # Undef
    /\ parsed.result[2].t = "error"

\* C11: a raw Work or Author record that lacks the field id, every other
\* field being valid, is rejected: the result has an error, which is about
\* id, and no entity.
C11_MissingIdRejected ==
    \A kind \in {"work", "author"} :
        (parsed.op # "none" /\ parsed.kind = kind
            /\ parsed.data = WithoutField(kind, "id"))
        => Rejected /\ parsed.result[2].issue = <<"id", "invalid_type">>

\* parseAuthor has been given the author record without its id
C11_Witness ==
    /\ parsed.op = "parseAuthor"
    /\ parsed.data = WithoutField("author", "id")
    /\ parsed.result[2] # Undef

\* C12: for every field the domain model declares optional, validation
\* accepts a record in which the field is absent and one in which it is
\* null, and in both cases the entity comes without the member.
C12_OptionalAbsentOrNullAccepted ==
    \A kind \in {"work", "author"} :
        \A f \in OptionalFields(kind) :
            (parsed.op # "none" /\ parsed.kind = kind
                /\ parsed.data \in {FieldAbsent(kind, f), FieldNull(kind, f)})
            => /\ parsed.result[2] = Undef
               /\ GetAt(parsed.result[1], f.out) = Undef

RECURSIVE HasKeyAt(_, _)
\* the object at the end of path has the last step of path as a key of its
\* own, whatever the value (Object.hasOwn)
HasKeyAt(value, path) ==
    IF value.t = "arr"
    THEN Len(value.v) >= 1 /\ HasKeyAt(value.v[1], Tail(path))
    ELSE /\ value.t = "obj"
         /\ path[1] \in DOMAIN value.v
         /\ Len(path) > 1 => HasKeyAt(value.v[path[1]], Tail(path))

\* C13: in every entity validation produces, an optional member whose
\* source field was omitted or null is entirely absent: the record has no
\* key for it, neither with null nor with an undefined placeholder.
C13_OmittedMemberHasNoKey ==
    (parsed.op # "none" /\ parsed.result[2] = Undef) =>
        \A f \in OptionalFields(parsed.kind) :
            GetAt(parsed.data, f.raw) \in {Undef, Null}
                => ~HasKeyAt(parsed.result[1], f.out)

\* C14: every enum-typed field accepts only its closed literal set: a
\* record carrying any other value in such a field, at top level or nested,
\* fails validation with an error and yields no entity, while every value
\* of the set is accepted.
C14_EnumsAreClosed ==
    \A kind \in {"work", "author"} :
        \A f \in EnumFields(kind) :
            \A value \in f.values \cup OutOfSetValues :
                (parsed.op # "none" /\ parsed.kind = kind
                    /\ parsed.data = FieldHolding(kind, f, value))
                => IF value \in f.values THEN parsed.result[2] = Undef ELSE Rejected

\* parseWork has refused a work whose nested source has the type
\* "book serier"
C14_Witness ==
    /\ parsed.op = "parseWork"
    /\ parsed.data =
           SetAt(Obj(WorkRecord), <<"primary_location", "source", "type">>,
                 Str("book serier"))
    /\ Rejected

---------------------------------------------------------------------------
(* Works with an inverted index of every shape.                            *)

\* a work with the fields the schema requires and no others
MinimalWork ==
    [id |-> Str("https://openalex.org/W2741809807"),
     ids |-> Obj([openalex |-> Str("https://openalex.org/W2741809807")]),
     title |-> Str("The state of OA"),
     indexed_in |-> Arr(<<>>),
     publication_date |-> Str("2018-02-13"),
     publication_year |-> Num(2018),
     fwci |-> Null,
     cited_by_count |-> Num(1000),
     has_fulltext |-> Bool(FALSE)]

PositionLists == UNION {[1..n -> 0..MaxPosition] : n \in 0..MaxIndices}

Nums(positions) == Arr([i \in 1..Len(positions) |-> Num(positions[i])])

\* the indexes of the words a and b, in either order of the keys, and the
\* indexes the documentation shows, an empty one and one of a blank word
InvertedIndexes ==
    {OrderedObj(order, [a |-> Nums(pa), b |-> Nums(pb)]) :
        order \in {<<"a", "b">>, <<"b", "a">>}, pa \in PositionLists, pb \in PositionLists}
    \cup {OrderedObj(<<"The", "cat", "sat">>,
                     [The |-> Nums(<<0>>), cat |-> Nums(<<1>>), sat |-> Nums(<<2>>)]),
          OrderedObj(<<"sat", "cat", "The">>,
                     [The |-> Nums(<<0>>), cat |-> Nums(<<1>>), sat |-> Nums(<<2>>)]),
          OrderedObj(<<" ", "a">>, (" " :> Nums(<<0, 2>>)) @@ ("a" :> Nums(<<1>>))),
          OrderedObj(<<" ">>, (" " :> Nums(<<0>>))),
          OrderedObj(<<>>, <<>>)}

\* the minimal work with each index, with null for one, and without one
AbstractInputs ==
    {Obj(("abstract_inverted_index" :> index) @@ MinimalWork) :
        index \in InvertedIndexes \cup {Null}}
    \cup {Obj(MinimalWork)}

NextAbstract ==
    /\ Idle
    /\ \E data \in AbstractInputs : ParseWork(data)

SpecAbstract == InitParse /\ [][NextAbstract]_vars

---------------------------------------------------------------------------
(* What the claims say of the abstract.                                    *)

\* the index of the work that was parsed, undefined or null without one
IndexParsed == Get(parsed.data, "abstract_inverted_index")

\* the (word, position) pairs of an index, each named by the place of its
\* word among the keys and the place of its position in the word's list
PairsOf(index) ==
    {<<w, i>> : w \in 1..Len(index.keys), i \in 1..MaxIndices + 1} \cap
    {<<w, i>> \in (1..Len(index.keys)) \X (1..MaxIndices + 1) :
        i <= Len(index.v[index.keys[w]].v)}

PositionOf(index, pair) == index.v[index.keys[pair[1]]].v[pair[2]].v

\* pair p comes before pair q: a lower position, or the same position and
\* earlier in the iteration of the mapping
ComesBefore(index, p, q) ==
    \/ PositionOf(index, p) < PositionOf(index, q)
    \/ /\ PositionOf(index, p) = PositionOf(index, q)
       /\ p[1] < q[1] \/ (p[1] = q[1] /\ p[2] < q[2])

\* the words of the pairs of index, ascending by position, ties in
\* iteration order
WordsInOrder(index) ==
    LET pairs == PairsOf(index)
        rank == [p \in pairs |-> 1 + Cardinality({q \in pairs : ComesBefore(index, q, p)})]
    IN [r \in 1..Cardinality(pairs) |->
           index.keys[(CHOOSE p \in pairs : rank[p] = r)[1]]]

RECURSIVE Spaced(_)
\* the characters of words with one space between neighbours
Spaced(words) ==
    IF words = <<>> THEN <<>>
    ELSE IF Len(words) = 1 THEN CharsOf[words[1]]
    ELSE Spaced(SubSeq(words, 1, Len(words) - 1)) \o <<" ">> \o CharsOf[words[Len(words)]]

\* cs from its first to its last character that is no white space
Trimmed(cs) ==
    LET solid == {i \in 1..Len(cs) : cs[i] \notin {" ", "\t", "\n", "\r"}}
    IN IF solid = {} THEN <<>>
       ELSE SubSeq(cs, CHOOSE i \in solid : \A j \in solid : i <= j,
                       CHOOSE i \in solid : \A j \in solid : j <= i)

RECURSIVE Text(_)
\* the string of a sequence of characters
Text(cs) == IF cs = <<>> THEN "" ELSE cs[1] \o Text(Tail(cs))

\* the abstract an index stands for
AbstractOf(index) == Text(Trimmed(Spaced(WordsInOrder(index))))

\* C15: the reconstructed abstract is the words of all (position, word)
\* pairs of the inverted index ascending by position, pairs of equal
\* position in the iteration order of the mapping, joined by one space and
\* trimmed.
C15_AbstractReconstruction ==
    (parsed.op # "none" /\ IndexParsed \notin {Undef, Null}) =>
        /\ parsed.result[2] = Undef
        /\ AbstractOf(IndexParsed) # ""
              => Get(parsed.result[1], "abztract") = Str(AbstractOf(IndexParsed))

\* the index {b: [1], a: [0, 1]} has given "a b a": at position 1 the word
\* b comes first, as in the mapping
C15_Witness ==
    /\ parsed.op = "parseWork"
    /\ IndexParsed = OrderedObj(<<"b", "a">>, [a |-> Nums(<<0, 1>>), b |-> Nums(<<1>>)])
    /\ Get(parsed.result[1], "abztract") = Str("a b a")

\* an index with nothing to say: none, null, no words, or no positions
NoAbstract ==
    \/ IndexParsed \in {Undef, Null}
    \/ \A word \in DOMAIN IndexParsed.v : IndexParsed.v[word].v = <<>>

\* C16: a Work whose abstract_inverted_index is absent, null or empty (no
\* words, or only words without positions) comes without an abstract
\* member, and the abstract member of a validated Work is never the empty
\* string.
C16_NoEmptyAbstract ==
    (parsed.op # "none" /\ parsed.result[2] = Undef) =>
        /\ NoAbstract => ~HasKeyAt(parsed.result[1], <<"abztract">>)
        /\ HasKeyAt(parsed.result[1], <<"abztract">>)
              => /\ Get(parsed.result[1], "abztract").t = "str"
                 /\ Get(parsed.result[1], "abztract").v # ""

\* a work with an index of words that have no positions was validated
C16_Witness ==
    /\ parsed.op = "parseWork"
    /\ parsed.result[2] = Undef
    /\ IndexParsed = OrderedObj(<<"a", "b">>, [a |-> Nums(<<>>), b |-> Nums(<<>>)])
    /\ ~HasKeyAt(parsed.result[1], <<"abztract">>)

---------------------------------------------------------------------------
(* The dates of works and authors, read as the tests read them.            *)

\* the minimal work published on calendar day c
DatedWork(c) == Obj([MinimalWork EXCEPT !.publication_date = Str(DateString(c))])

\* the author with calendar day c for one of its dates
DatedAuthor(field, c) == Obj([AuthorRecord EXCEPT ![field] = Str(DateString(c))])

\* the members that hold dates, and the fields they are made from
DateMembers ==
    [publicationDate |-> "publication_date", createdDate |-> "created_date",
     updatedDate |-> "updated_date"]

\* const pubDate = entity.member, read through the UTC accessors and through
\* the local ones on a host tza minutes ahead of UTC
ReadDate(member, tza) ==
    /\ parsed.op \in {"parseWork", "parseAuthor"}
    /\ parsed.result[2] = Undef
    /\ member \in DOMAIN parsed.result[1].v
    /\ parsed' = The({[op |-> "readDate", member |-> member, tza |-> tza,
                       utc |-> <<getUTCFullYear(date), getUTCMonth(date), getUTCDate(date)>>,
                       local |-> <<getFullYear(date, tza), getMonth(date, tza),
                                   getDate(date, tza)>>] @@ parsed :
                      date \in {parsed.result[1].v[member]}})
    /\ UNCHANGED <<filters, calls, ret, sel>>

NextDate ==
    \/ /\ Idle
       /\ \E c \in CalendarDays : ParseWork(DatedWork(c))
    \/ /\ Idle
       /\ \E c \in CalendarDays, field \in {"created_date", "updated_date"} :
             ParseAuthor(DatedAuthor(field, c))
    \/ /\ ~Idle
       /\ \E member \in DOMAIN DateMembers, tza \in HostOffsets : ReadDate(member, tza)

SpecDate == InitParse /\ [][NextDate]_vars

---------------------------------------------------------------------------
(* What the claims say of the dates.                                       *)

\* the calendar day <<YYYY, MM, DD>> the source string of the member read
\* is written for
SourceDay == CalendarDayOf[Get(parsed.data, DateMembers[parsed.member]).v]

\* the calendar day before c
DayBefore(c) ==
    IF c[3] > 1 THEN <<c[1], c[2], c[3] - 1>>
    ELSE IF c[2] > 1 THEN <<c[1], c[2] - 1, DaysInMonth(c[1], c[2] - 1)>>
    ELSE <<c[1] - 1, 12, 31>>

\* what the accessors give for calendar day c: the month counts from zero
Accessed(c) == <<c[1], c[2] - 1, c[3]>>

\* C17: for every date-only string 'YYYY-MM-DD' of publication_date,
\* created_date and updated_date the produced date read through the UTC
\* accessors gives year YYYY, month MM - 1 and day DD, whatever the offset
\* of the host's local time.
C17_UtcAnchored ==
    parsed.op = "readDate" => parsed.utc = Accessed(SourceDay)

\* '2018-02-13' was read as 2018, 1, 13 on a host five hours behind UTC
C17_Witness ==
    /\ parsed.op = "readDate"
    /\ parsed.member = "publicationDate"
    /\ Get(parsed.data, "publication_date") = Str("2018-02-13")
    /\ parsed.tza = -300
    /\ parsed.utc = <<2018, 1, 13>>

---------------------------------------------------------------------------
(* The requests, from `await fetch(...)` to the end of the function.       *)

\* what fetch and response.json() can come to: fetch rejects, or resolves
\* to a response that is not ok, or to an ok response whose body is no
\* JSON, or to an ok response with a decoded body
NetworkError ==
    [kind |-> "network_error", ok |-> FALSE, statusText |-> "", json |-> FALSE,
     body |-> Undef, valid |-> FALSE]

NotOk(statusText) ==
    [kind |-> "response", ok |-> FALSE, statusText |-> statusText, json |-> TRUE,
     body |-> Obj([error |-> Str(statusText)]), valid |-> FALSE]

Undecodable ==
    [kind |-> "response", ok |-> TRUE, statusText |-> "OK", json |-> FALSE,
     body |-> Undef, valid |-> FALSE]

\* an ok response with a body; valid tells that nothing in it fails the
\* schema of its kind
Decoded(body, valid) ==
    [kind |-> "response", ok |-> TRUE, statusText |-> "OK", json |-> TRUE,
     body |-> body, valid |-> valid]

\* the record the API answers a select request with, and the same without
\* its id
Selected(kind, call) == Response(kind, call.selectedFields)

SelectedWithoutId(kind, call) ==
    Obj([field \in RangeOf(call.selectedFields) \ {"id"} |-> RecordOf(kind)[field]])

\* a record under another title
Retitled(record) == SetAt(record, <<"title">>, Str("a"))

\* the bodies of a list response
ListOf(records) == Obj([results |-> Arr(records)])

Outcomes(op, kind, call) ==
    {NetworkError, NotOk("Not Found"), NotOk("Internal Server Error"), Undecodable}
    \cup (IF op = "getWorks"
          THEN {Decoded(Null, TRUE),
                Decoded(Obj([meta |-> Obj([count |-> Num(0)])]), TRUE),
                Decoded(Obj([results |-> Null]), TRUE),
                Decoded(ListOf(<<>>), TRUE),
                Decoded(ListOf(<<Selected(kind, call), Selected(kind, call)>>), TRUE),
                Decoded(ListOf(<<Selected(kind, call), Retitled(Selected(kind, call))>>),
                        TRUE),
                Decoded(ListOf(<<Selected(kind, call), SelectedWithoutId(kind, call)>>),
                        FALSE),
                Decoded(ListOf(<<SelectedWithoutId(kind, call), Selected(kind, call)>>),
                        FALSE)}
          ELSE {Decoded(Selected(kind, call), TRUE),
                Decoded(SelectedWithoutId(kind, call), FALSE),
                Decoded(Null, FALSE)})

\* the TypeError fetch rejects with, the SyntaxError response.json() does
Thrown(name) == [t |-> "error", name |-> name]

RECURSIVE ParseResults_skipInvalid(_, _, _)
\* a loop that leaves out the elements that fail validation
ParseResults_skipInvalid(results, i, works) ==
    IF i > Len(results) THEN <<Arr(works), Undef>>
    ELSE The({ParseResults_skipInvalid(results, i + 1,
                  IF Truthy(r[2]) THEN works ELSE Append(works, r[1])) :
              r \in {parseWork(results[i])}})

RECURSIVE ParseResults(_, _, _)
\* the loop of getWorks over result.results, from element i on, with the
\* works pushed so far
ParseResults(results, i, works) ==
    IF i > Len(results) THEN <<Arr(works), Undef>>
    ELSE The({IF Truthy(r[2]) THEN <<Undef, r[2]>>
              ELSE ParseResults(results, i + 1,
                                IF Truthy(r[1]) THEN Append(works, r[1]) ELSE works) :
              r \in {parseWork(results[i])}})

\* result && Array.isArray(result.results)
HasResults(result) ==
    /\ Truthy(result)
    /\ result.t = "obj"
    /\ Get(result, "results").t = "arr"

\* the function from the response on: `if (!response.ok)`, then
\* `await response.json()`, then the parsing of the body
AfterFetch(op, call, response) ==
    IF ~response.ok
    THEN [pc |-> "returned",
          result |-> <<Undef, Error("Failed to fetch: " \o response.statusText)>>]
    ELSE IF ~response.json
    THEN [pc |-> "rejected", result |-> <<>>, reason |-> Thrown("SyntaxError")]
    ELSE [pc |-> "returned",
          result |-> CASE op = "getWork" -> parseWork(response.body)
                       [] op = "getAuthor" -> parseAuthor(response.body)
                       [] op = "getWorks" ->
                             IF HasResults(response.body)
                             THEN ParseResults(Get(response.body, "results").v, 1, <<>>)
                             ELSE <<Arr(<<>>), Undef>>]

\* a getWorks that serializes its filter when the response arrives
Settled_lateFilter(op, call, outcome) ==
    [filterClause |-> Filter_toString(filters["w"]).result,
     url |-> "https://api.openalex.org/works?" \o call.selectQuery \o "&"
                \o Filter_toString(filters["w"]).result]
    @@ (IF outcome.kind = "network_error"
        THEN [pc |-> "rejected", result |-> <<>>, reason |-> Thrown("TypeError")]
        ELSE AfterFetch(op, call, outcome))

\* the function from `await fetch(...)` on: a fetch that rejects ends the
\* function, whose promise rejects with the same reason
Settled(op, call, outcome) ==
    IF outcome.kind = "network_error"
    THEN [pc |-> "rejected", result |-> <<>>, reason |-> Thrown("TypeError")]
    ELSE AfterFetch(op, call, outcome)

\* the request of a call comes to an end
Settle(outcome) ==
    /\ sel.op # "none"
    /\ sel.call.pc = "fetching"
    /\ sel' = [sel EXCEPT !.call = Settled(sel.op, sel.call, outcome)
                                   @@ [outcome |-> outcome] @@ sel.call]
    /\ UNCHANGED <<filters, calls, ret, parsed>>

\* the excludedFields of the calls that are followed to their end
SettledLists == {<<>>, <<"abstract_inverted_index">>, <<"affiliations">>}

NextRequest ==
    \/ /\ NoRequestYet
       /\ \E workIdType \in WorkIdTypeArgs,
             excludedFields \in SettledLists \cap WorkExcludedLists :
             GetWork(workIdType, excludedFields)
    \/ /\ NoRequestYet
       /\ \E excludedFields \in SettledLists \cap WorkExcludedLists :
             GetWorks("w", excludedFields)
    \/ /\ NoRequestYet
       /\ \E excludedFields \in SettledLists \cap WorkExcludedLists :
             GetWorksNoFilter(excludedFields)
    \/ /\ NoRequestYet
       /\ \E authorIdType \in AuthorIdTypeArgs,
             excludedFields \in SettledLists \cap AuthorExcludedLists :
             GetAuthor(authorIdType, excludedFields)
    \/ /\ ~NoRequestYet
       /\ sel.call.pc = "fetching"
       /\ \E outcome \in Outcomes(sel.op, sel.kind, sel.call) : Settle(outcome)

SpecRequest == InitSelect /\ [][NextRequest]_vars

---------------------------------------------------------------------------
(* What the claims say of the requests.                                    *)

\* the call is over
Over == sel.op # "none" /\ sel.call.pc # "fetching"

\* the call failed: it never came to a request (an invalid id type), or the
\* request did not bring a body that holds what the schema asks for
Failed == "outcome" \notin DOMAIN sel.call \/ ~sel.call.outcome.valid

\* C19: every failure of getWork, getWorks and getAuthor (an invalid id
\* type, a transport failure, a response that is not ok, an undecodable
\* body, a validation failure) is the error slot of the returned pair, with
\* the value slot empty; none of them throws or rejects.
C19_FailuresAreReturned ==
    Over => /\ sel.call.pc = "returned"
            /\ Failed => /\ sel.call.result[1] = Undef
                         /\ sel.call.result[2] # Undef
                         /\ sel.call.result[2].t = "error"

---------------------------------------------------------------------------
(* What the claims say of the ids.                                         *)

\* C20: every entity validation produces (Work, Author and the dehydrated
\* institutions, sources, authors and concepts in them) has an id that is a
\* non-empty string, and a record whose id is the empty string is rejected.
C20_IdsNonEmpty ==
    parsed.op \in {"parseWork", "parseAuthor"} =>
        /\ parsed.result[2] = Undef =>
              \A f \in IdFields(parsed.kind) :
                  GetAt(parsed.result[1], f.out) # Undef =>
                      /\ GetAt(parsed.result[1], f.out).t = "str"
                      /\ GetAt(parsed.result[1], f.out).v # ""
        /\ GetAt(parsed.data, <<"id">>) = Str("") => Rejected

---------------------------------------------------------------------------
(* What the claims say of the institutions.                                *)

\* the strings of an array of strings
StringsOf(arr) == {arr.v[i] : i \in 1..Len(arr.v)}

\* C21: every DehydratedInstitution validation produces (in authorships,
\* affiliations or lastKnownInstitutions) has a lineage that is not empty
\* and holds the institution's own id; a lineage of one element is the
\* institution's own id.
C21_LineageHoldsOwnId ==
    (parsed.op \in {"parseWork", "parseAuthor"} /\ parsed.result[2] = Undef) =>
        \A f \in InstitutionFields(parsed.kind) :
            GetAt(parsed.result[1], f.out) # Undef =>
                /\ GetAt(parsed.result[1], f.out \o <<"lineage">>).v # <<>>
                /\ GetAt(parsed.result[1], f.out \o <<"id">>)
                      \in StringsOf(GetAt(parsed.result[1], f.out \o <<"lineage">>))

---------------------------------------------------------------------------
(* The same value parsed twice, with or without a call in between.         *)

\* parseWork or parseAuthor, by the kind of entity
ParseOf(kind, data) == IF kind = "work" THEN parseWork(data) ELSE parseAuthor(data)

\* the values that are parsed twice
TwiceInputs(kind) == NoInputs \cup OptionalRecords(kind) \cup {Obj(RecordOf(kind))}

\* the values of the call in between
BetweenInputs(kind) ==
    {Null, Obj(RecordOf(kind)),
     IF kind = "work" THEN Obj(MinimalWork)
     ELSE RemoveAt(Obj(AuthorRecord), <<"summary_stats">>)}

\* the first call of a behaviour, as the calls after it find it
FirstCall ==
    IF "first" \in DOMAIN parsed THEN parsed.first
    ELSE [data |-> parsed.data, result |-> parsed.result]

\* another value is parsed after the first
ParseBetween(data) ==
    /\ parsed.op \in {"parseWork", "parseAuthor"}
    /\ "first" \notin DOMAIN parsed
    /\ parsed' = [data |-> data, result |-> ParseOf(parsed.kind, data),
                  first |-> FirstCall] @@ parsed
    /\ UNCHANGED <<filters, calls, ret, sel>>

\* the value of the first call is parsed again
ParseAgain ==
    /\ parsed.op \in {"parseWork", "parseAuthor"}
    /\ parsed' = [op |-> "parseAgain", data |-> FirstCall.data,
                  result |-> ParseOf(parsed.kind, FirstCall.data),
                  first |-> FirstCall, between |-> "first" \in DOMAIN parsed] @@ parsed
    /\ UNCHANGED <<filters, calls, ret, sel>>

NextTwice ==
    \/ /\ Idle
       /\ \E data \in TwiceInputs("work") : ParseWork(data)
    \/ /\ Idle
       /\ \E data \in TwiceInputs("author") : ParseAuthor(data)
    \/ /\ ~Idle
       /\ parsed.op # "parseAgain"
       /\ \E data \in BetweenInputs(parsed.kind) : ParseBetween(data)
    \/ /\ ~Idle
       /\ ParseAgain

SpecTwice == InitParse /\ [][NextTwice]_vars

---------------------------------------------------------------------------
(* What the claims say of the optional scalars.                            *)

\* C23: whenever a valid record carries a value that is not null for an
\* optional scalar field (fwci, the parts of biblio, pdf_url, oa_url, orcid,
\* the ids of an author, created_date, updated_date), the entity has the
\* member with that value (for a date, the Date of it), zero and the empty
\* string included.
C23_OptionalScalarsKept ==
    (parsed.op \in {"parseWork", "parseAuthor"} /\ parsed.result[2] = Undef) =>
        \A f \in ScalarFields(parsed.kind) :
            GetAt(parsed.data, f.raw) \notin {Undef, Null} =>
                GetAt(parsed.result[1], f.out) =
                    IF f.type = "date" THEN NewDate(GetAt(parsed.data, f.raw))
                    ELSE GetAt(parsed.data, f.raw)

\* C24: every Work validation accepts has a publicationDate that denotes a
\* calendar day, and every accepted Author's createdDate and updatedDate,
\* when present, do too: no entity carries an invalid date.
C24_DatesAreValid ==
    (parsed.op \in {"parseWork", "parseAuthor"} /\ parsed.result[2] = Undef) =>
        /\ parsed.kind = "work" => "publicationDate" \in DOMAIN parsed.result[1].v
        /\ \A member \in DOMAIN DateMembers \cap DOMAIN parsed.result[1].v :
              /\ parsed.result[1].v[member].t = "date"
              /\ parsed.result[1].v[member].valid

---------------------------------------------------------------------------
(* What the claims say of the field lists and the schemas.                 *)

\* the top-level keys the schema of a kind validates
SchemaKeys(kind) ==
    IF kind = "author" THEN DOMAIN AuthorZchema.in.shape ELSE DOMAIN WorkZchema.in.shape

\* C25: for the kind of every request, the names of the canonical
\* selectable-field list are the top-level keys the schema validates: the
\* fields a request selects are keys of the schema, and a request that
\* excludes nothing selects every key of the schema.
C25_RegistryMatchesSchema ==
    (sel.op # "none" /\ sel.call.pc = "fetching") =>
        /\ RangeOf(AllFields(sel.kind)) = SchemaKeys(sel.kind)
        /\ RangeOf(sel.call.selectedFields) \subseteq SchemaKeys(sel.kind)
        /\ sel.excludedFields = <<>> =>
              SchemaKeys(sel.kind) \subseteq RangeOf(sel.call.selectedFields)

\* the fields every request of a kind selects, whatever it excludes
AlwaysSelected(kind) ==
    RangeOf(SelectedFields(AllFields(kind), SetToSeq(Excludable(kind))))

\* C26: excluding fields never makes validation fail: the response to a
\* request is validated whatever the request excluded, a record without
\* one excludable field is validated, and a field whose absence is rejected
\* is not excludable and is selected by every request.
C26_ExclusionNeverFails ==
    parsed.op \in {"parseWork", "parseAuthor"} =>
        /\ parsed.response => parsed.result[2] = Undef
        /\ \A field \in DOMAIN RecordOf(parsed.kind) :
              parsed.data = WithoutField(parsed.kind, field) =>
                  /\ field \in Excludable(parsed.kind) => parsed.result[2] = Undef
                  /\ parsed.result[2] # Undef =>
                        /\ field \notin Excludable(parsed.kind)
                        /\ field \in AlwaysSelected(parsed.kind)

\* the response to a request that excluded every excludable field of a
\* work was validated
C26_Witness ==
    /\ parsed.op = "parseWork"
    /\ parsed.response
    /\ parsed.excluded = ExcludeWorkField
    /\ "authorships" \notin DOMAIN parsed.data.v
    /\ parsed.result[2] = Undef

---------------------------------------------------------------------------
(* Filters with lists of one element and of none.                          *)

\* the lists at the edge: one element of each type, and none
EdgeValues ==
    {Arr(<<>>), Arr(<<Str("article")>>), Arr(<<Num(2020)>>), Arr(<<Bool(TRUE)>>)}

NextList ==
    \/ \E o \in Instances, value \in EdgeValues, operator \in OperatorArgs :
          Add(o, value, operator)
    \/ \E o \in Instances : ToStringCall(o)

SpecList == InitFilter /\ [][NextList]_vars

\* the conditions with every list of one element replaced by that element
Unwrapped(fs) ==
    [i \in 1..Len(fs) |->
        IF fs[i].value.t = "arr" /\ Len(fs[i].value.v) = 1
        THEN [fs[i] EXCEPT !.value = fs[i].value.v[1]]
        ELSE fs[i]]

\* the conditions with an empty list, each given the empty string for a
\* value and no operator
Emptied(fs) ==
    [i \in 1..Len(fs) |->
        IF fs[i].value = Arr(<<>>)
        THEN [fs[i] EXCEPT !.value = Str(""), !.operator = ""]
        ELSE fs[i]]

\* C27: a list of one element [v] serializes to the condition text of the
\* scalar v with the same operator, and an empty list serializes to
\* '<field>:' with no operator and no value, for every operator.
C27_ListEdgeCases ==
    ret.op = "toString" =>
        /\ ret.result.v = "filter=" \o Filter_build(Unwrapped(filters[ret.self]))
        /\ ret.result.v = "filter=" \o Filter_build(Emptied(filters[ret.self]))
        /\ \A i \in 1..Len(filters[ret.self]) :
              filters[ret.self][i].value = Arr(<<>>) =>
                  Filter_condition(filters[ret.self][i]) = filters[ret.self][i].field \o ":"

\* a filter of a one-element list under '!' and an empty list under '>'
\* was serialized
C27_Witness ==
    /\ ret.op = "toString"
    /\ ret.self = "w"
    /\ Len(filters["w"]) = 2
    /\ filters["w"][1].value = Arr(<<Str("article")>>)
    /\ filters["w"][1].operator = "!"
    /\ filters["w"][2].value = Arr(<<>>)
    /\ filters["w"][2].operator = ">"
    /\ ret.result = Str("filter=id:!article,id:")

---------------------------------------------------------------------------
(* add calls on the WorkFilter while the request of getWorks is in flight. *)

\* the request of the call is out and has not come back
InFlight == sel.op # "none" /\ sel.call.pc = "fetching"

\* the values added meanwhile, and what the request comes to
FlightValues == {Str("article"), Arr(<<Str("A1"), Str("A2")>>)}

FlightOutcomes(kind, call) ==
    {NotOk("Not Found"), Decoded(ListOf(<<Selected(kind, call)>>), TRUE)}

NextFlight ==
    \/ /\ NoRequestYet
       /\ \E excludedFields \in SettledLists \cap WorkExcludedLists :
             GetWorks("w", excludedFields)
    \/ /\ InFlight
       /\ \E value \in FlightValues, operator \in OperatorArgs : Add("w", value, operator)
    \/ /\ InFlight
       /\ \E outcome \in FlightOutcomes(sel.kind, sel.call) : Settle(outcome)

SpecFlight == InitSelect /\ [][NextFlight]_vars

\* C28: the filter clause of the request getWorks issues is the
\* serialization of the WorkFilter's conditions when getWorks was called,
\* and no step after the call, an add on the same WorkFilter or the arrival
\* of the response, changes the URL or the filter clause of the call.
C28_FilterAtCallTime ==
    [][/\ (sel.op = "none" /\ sel'.op = "getWorks") =>
              /\ sel'.call.filterClause = "filter=" \o Filter_build(filters["w"])
              /\ sel'.call.url = "https://api.openalex.org/works?"
                                    \o sel'.call.selectQuery \o "&"
                                    \o "filter=" \o Filter_build(filters["w"])
       /\ sel.op = "getWorks" =>
              /\ sel'.call.url = sel.call.url
              /\ sel'.call.filterClause = sel.call.filterClause]_vars

\* a call of getWorks returned its works after conditions were added to
\* its filter, for the request it had issued with the filter of before
C28_Witness ==
    /\ sel.op = "getWorks"
    /\ sel.call.pc = "returned"
    /\ sel.call.result[2] = Undef
    /\ sel.call.filterClause = "filter="
    /\ Len(filters["w"]) = 2

---------------------------------------------------------------------------
(* What the claims say of the list getWorks returns.                       *)

\* getWorks returned for an ok response whose body has a results array
ListReturned ==
    /\ sel.op = "getWorks"
    /\ sel.call.pc = "returned"
    /\ sel.call.outcome.kind = "response"
    /\ sel.call.outcome.ok
    /\ sel.call.outcome.json
    /\ sel.call.outcome.body.t = "obj"
    /\ Get(sel.call.outcome.body, "results").t = "arr"

\* the elements of that array
Elements == Get(sel.call.outcome.body, "results").v

\* C29: if any element of the response's results fails validation getWorks
\* returns that error and no list; otherwise it returns a list with
\* exactly one Work per element, in the order of the response.
C29_AllOrNothing ==
    ListReturned =>
        IF \E i \in 1..Len(Elements) : parseWork(Elements[i])[2] # Undef
        THEN /\ sel.call.result[1] = Undef
             /\ \E i \in 1..Len(Elements) :
                   /\ sel.call.result[2] = parseWork(Elements[i])[2]
                   /\ \A j \in 1..(i - 1) : parseWork(Elements[j])[2] = Undef
        ELSE /\ sel.call.result[2] = Undef
             /\ sel.call.result[1] =
                   Arr([i \in 1..Len(Elements) |-> parseWork(Elements[i])[1]])

\* getWorks returned the two works of a response, the retitled one second
C29_Witness ==
    /\ ListReturned
    /\ Len(Elements) = 2
    /\ sel.call.result[2] = Undef
    /\ Len(sel.call.result[1].v) = 2
    /\ Get(sel.call.result[1].v[1], "title") = Str("The state of OA")
    /\ Get(sel.call.result[1].v[2], "title") = Str("a")

\* getWorks returned for an ok response whose decoded body is empty or has
\* no results array
NoListReturned ==
    /\ sel.op = "getWorks"
    /\ sel.call.pc = "returned"
    /\ sel.call.outcome.kind = "response"
    /\ sel.call.outcome.ok
    /\ sel.call.outcome.json
    /\ ~HasResults(sel.call.outcome.body)

\* C30: when the response is ok but its decoded body is empty or has no
\* results array, getWorks returns an error and no list, never a
\* successful empty list.
C30_MalformedListingIsError ==
    NoListReturned =>
        /\ sel.call.result[1] = Undef
        /\ sel.call.result[2] # Undef
        /\ sel.call.result[2].t = "error"

=============================================================================
